---- MODULE Spec2Model ----
(***************************************************************************)
(* msmaccelerator2: the AdaptiveServer (a ZMQ ROUTER socket driven by an   *)
(* event loop) and the devices that connect to it over REQ sockets.        *)
(*                                                                         *)
(* Devices are instances of the Device subclasses of the repository        *)
(* (Simulator, AmberSimulator, Modeler, Interactor).  Other clients of the *)
(* server's port ("foreign" senders) are modelled by ForeignSend, which    *)
(* puts one frame of a small set on the wire.                              *)
(*                                                                         *)
(* The audit database (the mongodb collection BaseServer logs messages to)  *)
(* is not connected in the first specification (BaseServer.db is None, as  *)
(* after _start_database without MONGO_URL) and the second; SpecAudit has  *)
(* it connected, working or failing.  The sqlalchemy session of            *)
(* core/database.py is bound.                                              *)
(***************************************************************************)
EXTENDS Integers, Sequences, FiniteSets, TLC

\* ------------------------------------------------------------------ bounds

\* how many frames clients outside the repository put on the wire
MaxForeign == 1

\* len(traj) of the seed structures file
NSeeds == 2

\* np.random.rand() is one of the RandSteps largest values it can return
RandSteps == 2

\* the bits of a float's mantissa (53 in a float64)
MantissaBits == 4

\* the tolerance of assert_almost_equal, in units in the last place
AlmostUlps == 4

\* the models given to the sampler alone have at most this many states
MaxStates == 4

\* each of them with at most this many counts
MaxCount == 3

\* the largest beta the sampler alone is given; the smallest is 2 - MaxBeta
MaxBeta == 42

\* how many frames the clients of the second specification send
MaxFrames == 3

\* how many frames the clients send in the specification with the audit
\* database
AuditFrames == 2

\* how many frames wait in the server's queue in the second specification
MaxQueue == 1

\* how many polls time out although the server is up and has the request
\* still waiting in its queue (the server is slower than the timeout)
MaxSlow == 1

\* how many rows each table of the database holds when the server starts
MaxRows == 2

\* how many frames the clients send to a server started on such a database
RestartFrames == 1

\* how many frames the clients send to the server whose handlers are followed
\* step by step
LoopFrames == 2

\* reindex_list: how many sublists, how long a sublist, how many indices
MaxSublists == 3
MaxLength == 2
MaxIndices == 2

\* ------------------------------------------------------- program constants

\* Device.send_recv(..., retries=3)
retries == 3

\* ------------------------------------------------------------------- names

Devices == {"d1", "d2"}
ForeignIds == {"x1"}
ServerId == "server"
Classes == {"Simulator", "AmberSimulator", "Modeler", "Interactor"}

\* Device._uuid_default: the uuid of a device, str(uuid.uuid4())
uuid(d) == d

\* the value of the IDENTITY option of a socket on which it was never set:
\* the ROUTER then names the peer itself, with a name no client knows
NoIdentity == ""

\* paths are <<directory, basename, extension>>
NoPath == <<>>
Location(protocol, path) == [protocol |-> protocol, path |-> path]
NoLocation == Location("", NoPath)

\* the value of a numeric key ('value', 'beta') that is not in the content
NoValue == -1

\* a 'value' that is no number (a string, a list)
NotANumber == -2

\* the keys a message content can carry; a key that is not there is NoLocation,
\* "" or <<>>
Content(status, output, traj_fns, starting_state, topology_pdb) ==
    [status |-> status, output |-> output, traj_fns |-> traj_fns,
     starting_state |-> starting_state, topology_pdb |-> topology_pdb,
     value |-> NoValue, beta |-> NoValue, msg |-> ""]
EmptyContent == Content("", NoLocation, <<>>, NoLocation, NoLocation)
OutputContent(status, path) ==
    Content(status, Location("localfs", path), <<>>, NoLocation, NoLocation)

\* {'value': value}, the content of set_beta
ValueContent(value) == [EmptyContent EXCEPT !.value = value]
\* {'status': status, 'msg': msg}: the replies of set_beta
StatusContent(status, msg) == [EmptyContent EXCEPT !.status = status, !.msg = msg]
\* {'beta': beta, 'status': status}: the reply of get_beta
BetaContent(beta, status) == [EmptyContent EXCEPT !.beta = beta, !.status = status]

AllFields == {"sender_id", "msg_type", "content"}

\* pack_message as it would be if the id were drawn once, when the module is
\* loaded, and not in every call
pack_message_one_id(msg_type, sender_id, content, n, now) ==
    [has |-> AllFields,
     header |-> [sender_id |-> sender_id, msg_id |-> <<sender_id, 0>>,
                 msg_type |-> msg_type, time |-> now],
     content |-> content]

\* message.pack_message: the id is fresh (the n-th uuid4 drawn by the sender),
\* the time is the clock's
pack_message(msg_type, sender_id, content, n, now) ==
    [has |-> AllFields,
     header |-> [sender_id |-> sender_id, msg_id |-> <<sender_id, n>>,
                 msg_type |-> msg_type, time |-> now],
     content |-> content]

VARIABLES
    class,          \* device -> the Device subclass it is an instance of
    pc,             \* device -> where the process is
    request,        \* device -> the (msg_type, content) of the running send_recv
    attempt,        \* device -> sends done by the running send_recv
    socket,         \* device -> its current REQ socket
    mailbox,        \* device -> messages the ROUTER delivered to that socket
    startup,        \* device -> the reply to its registration
    call,           \* device -> history of the running / last send_recv
    packed,         \* sender -> number of messages it packed
    clock,          \* time.time()
    inbox,          \* frames on the wire to the ROUTER
    trajectories,   \* rows of the trajectories table
    models,         \* rows of the models table
    sampler,        \* the CountsSampler
    streamOpen,     \* the ZMQStream still calls _dispatch
    lastDispatch,   \* history: what the last _dispatch call did
    foreignLeft,    \* frames foreign clients are still going to send
    assigned,       \* history: who was sent a simulate message, in that order
    reported,       \* history: whose simulation_done was handled, in that order
    assignment,     \* history: client -> the last assignment sent to it
    slow,           \* polls that timed out on a request the server had queued
    running,        \* the _dispatch calls that have begun and not returned
    reindexed       \* the last call of reindex_list: arguments and result

devVars == <<class, pc, request, attempt, socket, startup, call>>
srvVars == <<trajectories, models, sampler, streamOpen, lastDispatch,
            assigned, reported, assignment>>
vars == <<class, pc, request, attempt, socket, mailbox, startup, call, packed,
          clock, inbox, trajectories, models, sampler, streamOpen,
          lastDispatch, foreignLeft, assigned, reported, assignment, slow,
          running, reindexed>>

\* ------------------------------------------------------------------ server

\* what a handler works on: the two tables and the sampler
ServerState == [trajectories |-> trajectories, models |-> models,
                sampler |-> sampler]

\* no state selected by the sampler
NoState == [source |-> "", file |-> NoPath, index |-> 0]

\* reindex_list not called yet
NoReindex == [indices |-> <<>>, sublist_lengths |-> <<>>, raised |-> "none",
              output |-> <<>>]

\* a running _dispatch call: the exception that ended it ("none" while it
\* runs), the (client_id, msg_type, content) triples it sent, the state, the
\* state sampler.get_state selected for it, and the audit database: "none"
\* (self.db is None), "ok", or the writes that fail, "inbound" (of received
\* messages) or "outbound" (of sent ones)
Running(S) == [raised |-> "none", sent |-> <<>>, state |-> S,
               selected |-> NoState, audit |-> "none"]
Raise(r, exception) == IF r.raised = "none" THEN [r EXCEPT !.raised = exception] ELSE r

\* msg.header.<field>, msg.content: Message maps the keys of the dict to
\* attributes, so a key that is not there is an AttributeError
attribute(r, msg, field) ==
    IF field \in msg.has THEN r ELSE Raise(r, "AttributeError")

\* BaseServer.send_message(self, client_id, msg_type, content): all three
\* arguments are required, a call with fewer raises TypeError before the body
\* runs; the packed message is saved to the audit database, if there is one,
\* and then goes out on the stream
send_message(r, args) ==
    IF r.raised # "none" THEN r
    ELSE IF Len(args) # 3 THEN Raise(r, "TypeError")
    ELSE IF r.audit = "outbound" THEN Raise(r, "AutoReconnect")
    ELSE [r EXCEPT !.sent = Append(@, [client_id |-> args[1],
                                       msg_type |-> args[2],
                                       content |-> args[3]])]

\* session.add(Trajectory(...)); session.commit()
add_Trajectory(r, row) ==
    IF r.raised # "none" THEN r
    ELSE [r EXCEPT !.state.trajectories = Append(@, row)]

\* session.add(Model(...)); session.commit()
add_Model(r, row) ==
    IF r.raised # "none" THEN r
    ELSE [r EXCEPT !.state.models = Append(@, row)]

Row(header, content) ==
    [time |-> header.time, protocol |-> content.output.protocol,
     path |-> content.output.path]

\* ----------------------------------------------------------- the sampler

\* os.path.join(directory, name + extension)
Path(directory, name, extension) == <<directory, name, extension>>

\* numbers.  The weights are numpy float64 arrays.  A float is m * 2^e with a
\* mantissa m of at most MantissaBits bits and EMin <= e (m below
\* 2^(MantissaBits - 1) only where e = EMin: the subnormal numbers); every
\* operation rounds its exact result to the nearest float, ties to even.  The
\* exponents range as those of float64 do; Inf and NaN are what float64
\* arithmetic gives on overflow and on 0/0, Inf/Inf.

\* the one element of a set: Only({e(x) : x \in {v}}) is e(v) with v
\* evaluated once, as the operand of a machine operation is
Only(S) == CHOOSE x \in S : TRUE

RECURSIVE Pow2(_)
Pow2(k) == IF k <= 0 THEN 1 ELSE 2 * Pow2(k - 1)

RECURSIVE BitLength(_)
BitLength(M) == IF M = 0 THEN 0 ELSE 1 + BitLength(M \div 2)

\* the smallest positive float64 is 2^-1074, the largest is below 2^1024
EMin == -1074
EMax == 1023

Zero == [m |-> 0, e |-> 0]
Inf == [m |-> -1, e |-> 0]
NaN == [m |-> -2, e |-> 0]

Largest(a, b, c) ==
    IF a >= b /\ a >= c THEN a ELSE IF b >= c THEN b ELSE c

\* q * 2^e with q of at most MantissaBits bits, shifted to its normal form
Normal(q, e) ==
    LET k == IF MantissaBits - BitLength(q) < e - EMin
             THEN MantissaBits - BitLength(q) ELSE e - EMin
    IN IF (e - k) + MantissaBits - 1 > EMax THEN Inf
       ELSE [m |-> q * Pow2(k), e |-> e - k]

\* the float nearest to M * 2^E (M >= 0)
Rounded(M, E, drop) ==
    IF drop > BitLength(M) + 1 THEN Zero
    ELSE LET q == M \div Pow2(drop)
             rem == M % Pow2(drop)
             half == Pow2(drop) \div 2
             up == drop > 0 /\ (rem > half \/ (rem = half /\ q % 2 = 1))
             q1 == IF up THEN q + 1 ELSE q
         IN IF q1 = 0 THEN Zero
            ELSE IF q1 = Pow2(MantissaBits)
            THEN Normal(q1 \div 2, E + drop + 1)
            ELSE Normal(q1, E + drop)

Round(M0, E0) ==
    Only({IF M = 0 THEN Zero
          ELSE Only({Rounded(M, E, drop) :
                        drop \in {Largest(BitLength(M) - MantissaBits,
                                          EMin - E, 0)}}) :
             M \in {M0}, E \in {E0}})

\* float(n) of an integer
Float(n) == Round(n, 0)
One == Float(1)

\* a * b
Times(a0, b0) ==
    Only({IF a = NaN \/ b = NaN THEN NaN
          ELSE IF a = Inf \/ b = Inf
          THEN IF a = Zero \/ b = Zero THEN NaN ELSE Inf
          ELSE Round(a.m * b.m, a.e + b.e) :
             a \in {a0}, b \in {b0}})

\* a + b
Plus(a0, b0) ==
    Only({IF a = NaN \/ b = NaN THEN NaN
          ELSE IF a = Inf \/ b = Inf THEN Inf
          ELSE IF a = Zero THEN b
          ELSE IF b = Zero THEN a
          ELSE LET hi == IF a.e >= b.e THEN a ELSE b
                   lo == IF a.e >= b.e THEN b ELSE a
                   gap == hi.e - lo.e
               IN IF gap >= MantissaBits + 2 THEN hi
                  ELSE Round(hi.m * Pow2(gap) + lo.m, lo.e) :
             a \in {a0}, b \in {b0}})

\* a / b
Over(a0, b0) ==
    Only({IF a = NaN \/ b = NaN THEN NaN
          ELSE IF a = Inf THEN (IF b = Inf THEN NaN ELSE Inf)
          ELSE IF b = Inf THEN Zero
          ELSE IF b = Zero THEN (IF a = Zero THEN NaN ELSE Inf)
          ELSE IF a = Zero THEN Zero
          ELSE LET k == 2 * MantissaBits + 2
                   quotient == (a.m * Pow2(k)) \div b.m
                   sticky == IF (a.m * Pow2(k)) % b.m = 0 THEN 0 ELSE 1
               IN Round(2 * quotient + sticky, a.e - k - 1 - b.e) :
             a \in {a0}, b \in {b0}})

\* a < b (False where one of them is NaN)
Less(a0, b0) ==
    \E a \in {a0}, b \in {b0} :
        IF a = NaN \/ b = NaN THEN FALSE
        ELSE IF a = Inf THEN FALSE
        ELSE IF b = Inf THEN TRUE
        ELSE IF b = Zero THEN FALSE
        ELSE IF a = Zero THEN TRUE
        ELSE LET ta == a.e + BitLength(a.m)
                 tb == b.e + BitLength(b.m)
                 low == IF a.e <= b.e THEN a.e ELSE b.e
             IN IF ta # tb THEN ta < tb
                ELSE a.m * Pow2(a.e - low) < b.m * Pow2(b.e - low)

\* a != b of two floats (NaN differs from everything, itself included)
NotEqual(a, b) == a = NaN \/ b = NaN \/ a # b

\* np.power(c, e) for a whole number e, by repeated squaring
RECURSIVE Pow(_, _)
Pow(c0, e) ==
    Only({IF e < 0 THEN Over(One, Pow(c, 0 - e))
          ELSE IF e = 0 THEN One
          ELSE Only({IF e % 2 = 0 THEN Times(h, h)
                     ELSE Times(Times(h, h), c) :
                        h \in {Pow(c, e \div 2)}}) :
             c \in {c0}})

\* 10.**-8: its float64 mantissa (the leading bits of it) and exponent
EpsilonMantissa == 11258999
EpsilonExponent == -50
Epsilon == Round(2 * EpsilonMantissa + 1, EpsilonExponent - 1)

RECURSIVE Sum(_)
Sum(seq) == IF seq = <<>> THEN 0 ELSE Head(seq) + Sum(Tail(seq))

\* np.cumsum: the running sums, from the left
RECURSIVE cumsum(_)
cumsum(w0) ==
    Only({IF w = <<>> THEN <<>>
          ELSE Only({Append(c, IF c = <<>> THEN w[Len(w)]
                               ELSE Plus(c[Len(c)], w[Len(w)])) :
                        c \in {cumsum(SubSeq(w, 1, Len(w) - 1))}}) :
             w \in {w0}})

\* np.sum of an array of fewer than 8 entries: the sum from the left
np_sum(w0) ==
    Only({IF w = <<>> THEN Zero ELSE cumsum(w)[Len(w)] : w \in {w0}})

\* np.testing.assert_almost_equal(x, 1) passes: abs(x - 1) < 1.5 * 10**-7,
\* which is 2^30 units in the last place of a float64 and here AlmostUlps
\* units in the last place
almost_equal_one(x0) ==
    \E x \in {x0} :
        /\ x \notin {NaN, Inf}
        /\ ~Less(x, Round(Pow2(MantissaBits) - AlmostUlps, 0 - MantissaBits))
        /\ ~Less(Round(Pow2(MantissaBits) + AlmostUlps, 0 - MantissaBits), x)

\* CountsSampler.beta = Float(1, config=True)
DefaultBeta == 1

\* sampler.model is None
NoModel == [path |-> NoPath, counts |-> <<>>, populations |-> <<>>,
            readable |-> FALSE, open |-> FALSE]

\* CNumpyArray.default_value = np.array([])
NoWeights == <<>>

\* the sampler initialize_sampler makes, the models table being empty
NoSampler == [model_fn |-> NoPath, model |-> NoModel, beta |-> DefaultBeta,
              weights |-> NoWeights, cumulative_weights |-> NoWeights]

\* MarkovStateModel.load(filename): the object holds the open file; its
\* counts are read from the file when reset_weights first asks for them
load(filename, file) ==
    [path |-> filename, counts |-> file.counts,
     populations |-> file.populations, readable |-> file.readable,
     open |-> TRUE]

\* CNumpyArray.__set__: np.any(old_value != new_value), elementwise where the
\* shapes are the same or one of them has one element, True where the shapes
\* cannot be compared
differs(old0, new0) ==
    \E old \in {old0}, new \in {new0} :
        IF Len(old) = Len(new)
        THEN \E i \in 1..Len(old) : NotEqual(old[i], new[i])
        ELSE IF Len(old) = 1
        THEN \E j \in 1..Len(new) : NotEqual(old[1], new[j])
        ELSE IF Len(new) = 1
        THEN \E i \in 1..Len(old) : NotEqual(old[i], new[1])
        ELSE TRUE

\* CentroidSampler._weights_changed(old, new)
weights_changed_(r, new) ==
    Only({LET r1 == [r EXCEPT !.state.sampler.cumulative_weights =
                                  cumulative_weights]
          IN IF cumulative_weights = <<>> THEN Raise(r1, "IndexError")
             ELSE IF ~almost_equal_one(
                          cumulative_weights[Len(cumulative_weights)])
             THEN Raise(r1, "AssertionError")
             ELSE r1 :
             cumulative_weights \in {cumsum(new)}})

\* self.weights = new: the trait takes the value, then notifies
set_weights(r0, new0) ==
    Only({IF differs(r.state.sampler.weights, new)
          THEN weights_changed_([r EXCEPT !.state.sampler.weights = new], new)
          ELSE [r EXCEPT !.state.sampler.weights = new] :
             r \in {r0}, new \in {new0}})

\* a numpy array of n floats
array(f, n) == SubSeq(f, 1, n)

\* reset_weights: np.array(self.model.counts.sum(axis=1)).flatten() + 10.**-8
counts_per_state(counts) ==
    array([i \in 1..Len(counts) |-> Plus(Float(counts[i]), Epsilon)],
          Len(counts))

\* reset_weights: np.power(counts_per_state, e)
power(c0, e) ==
    Only({array([i \in 1..Len(c) |-> Pow(c[i], e)], Len(c)) : c \in {c0}})

\* reset_weights: self.weights = w / np.sum(w), and then
\* self.cumulative_weights = np.cumsum(self.weights)
assign_weights(r, w0) ==
    Only({Only({IF r1.raised # "none" THEN r1
                ELSE [r1 EXCEPT !.state.sampler.cumulative_weights =
                                    cumsum(r1.state.sampler.weights)] :
                   r1 \in {set_weights(r, array([i \in 1..Len(w) |->
                                                    Over(w[i], total)],
                                                Len(w)))}}) :
             w \in {w0}, total \in {np_sum(w0)}})

\* reset_weights as it would be with np.power(counts_per_state, self.beta)
reset_weights_to_the_beta(r) ==
    IF r.raised # "none" THEN r
    ELSE IF r.state.sampler.model = NoModel THEN r
    ELSE IF ~r.state.sampler.model.readable THEN Raise(r, "NoSuchNodeError")
    ELSE assign_weights(r, power(counts_per_state(r.state.sampler.model.counts),
                                 r.state.sampler.beta))

\* reset_weights as it would be if it reweighted the weights it finds
reset_weights_in_place(r) ==
    IF r.raised # "none" THEN r
    ELSE IF r.state.sampler.model = NoModel THEN r
    ELSE IF ~r.state.sampler.model.readable THEN Raise(r, "NoSuchNodeError")
    ELSE LET old == r.state.sampler.weights
             w == power(counts_per_state(r.state.sampler.model.counts),
                        r.state.sampler.beta - 1)
         IN assign_weights(r, IF Len(old) = Len(w)
                              THEN array([i \in 1..Len(w) |->
                                             Times(old[i], w[i])], Len(w))
                              ELSE w)

\* CountsSampler.reset_weights
reset_weights(r) ==
    IF r.raised # "none" THEN r
    ELSE IF r.state.sampler.model = NoModel THEN r
    ELSE IF ~r.state.sampler.model.readable THEN Raise(r, "NoSuchNodeError")
    ELSE assign_weights(r, power(counts_per_state(r.state.sampler.model.counts),
                                 r.state.sampler.beta - 1))

\* self.model = new: the trait takes the object, and (a new object never
\* equals the old one) CountsSampler._model_changed resets the weights
set_model(r, new) ==
    reset_weights([r EXCEPT !.state.sampler.model = new])

\* CentroidSampler._model_fn_changed(old, new)
model_fn_changed_(r, new, env) ==
    LET r1 == IF r.state.sampler.model # NoModel
              THEN [r EXCEPT !.state.sampler.model.open = FALSE]
              ELSE r
    IN IF env.loadOk THEN set_model(r1, load(new, env.file))
       ELSE Raise(r1, "IOError")

\* self.sampler.model_fn = new: the trait takes the value, and if it differs
\* from the old one _model_fn_changed loads the model from that file
\* (MarkovStateModel.load raises when the file cannot be opened)
set_model_fn(r, new, env) ==
    IF r.raised # "none" THEN r
    ELSE IF new = r.state.sampler.model_fn THEN r
    ELSE model_fn_changed_([r EXCEPT !.state.sampler.model_fn = new], new, env)

\* self.sampler.beta = new_beta: Float takes a number only (TraitError
\* otherwise); if it differs from the old one _beta_changed resets the weights
set_beta_trait(r, new_beta) ==
    IF r.raised # "none" THEN r
    ELSE IF new_beta = NotANumber THEN Raise(r, "TraitError")
    ELSE IF new_beta = r.state.sampler.beta THEN r
    ELSE reset_weights([r EXCEPT !.state.sampler.beta = new_beta])

\* BaseSampler.select: a frame of the seed structures, drawn uniformly
BaseSampler_select(r, env) ==
    IF ~env.stateOk THEN Raise(r, "ValueError")
    ELSE [r EXCEPT !.selected = [source |-> "seed_structures",
                                 file |-> Path("", "ala5", ".pdb"),
                                 index |-> env.frame]]

\* np.random.rand(): a multiple of 2^-53 in [0, 1), here of
\* 2^-MantissaBits; `rand` counts down from the largest of them
uniform(rand) == Round(Pow2(MantissaBits) - rand, 0 - MantissaBits)

\* the generator the model is asked for: np.sum(cumulative_weights < u)
generator(cumulative_weights, rand) ==
    Cardinality({i \in 1..Len(cumulative_weights) :
                   Less(cumulative_weights[i], uniform(rand))})

\* CentroidSampler.select without its test for a missing model: the
\* generator's (traj, frame) is read from the arrays of the model file
select_from_model(r, env) ==
    LET index == generator(r.state.sampler.cumulative_weights, env.rand) IN
    IF r.state.sampler.model = NoModel THEN Raise(r, "AttributeError")
    ELSE IF ~r.state.sampler.model.readable THEN Raise(r, "NoSuchNodeError")
    ELSE IF index >= Len(r.state.sampler.model.counts)
    THEN Raise(r, "IndexError")
    ELSE IF ~env.stateOk THEN Raise(r, "IOError")
    ELSE [r EXCEPT !.selected =
             [source |-> "model", file |-> r.state.sampler.model.path,
              index |-> index]]

\* CentroidSampler.select
select(r, env) ==
    IF \/ r.state.sampler.model = NoModel
       \/ r.state.sampler.weights = <<>>
    THEN BaseSampler_select(r, env)
    ELSE select_from_model(r, env)

\* BaseSampler.get_state: self.statebuilder.build(self.select())
get_state(r, env) ==
    IF r.raised # "none" THEN r ELSE select(r, env)

\* _register_Simulator as it would be if the server entered the trajectory
\* into the table when it hands out the assignment, not when it is reported
register_Simulator_recording(r0, sender_id, state_format, traj_format, env) ==
    LET r1 == IF state_format \in {".xml", ".inpcrd"} THEN r0
              ELSE Raise(r0, "AssertionError")
        starting_state_fn ==
            Path("starting_states", sender_id, "." \o state_format)
        r2 == get_state(r1, env)
        r3 == add_Trajectory(r2, [time |-> 0, protocol |-> "localfs",
                                  path |-> Path("trajs", sender_id, traj_format)])
    IN send_message(r3, <<sender_id, "simulate",
           Content("", Location("localfs", Path("trajs", sender_id, traj_format)),
                   <<>>, Location("localfs", starting_state_fn),
                   Location("localfs", Path("", "ala5", ".pdb")))>>)

\* _register_Simulator as it would be if it named the output file after the
\* output directory and not after the sender
register_Simulator_one_output(r0, sender_id, state_format, traj_format, env) ==
    LET r1 == IF state_format \in {".xml", ".inpcrd"} THEN r0
              ELSE Raise(r0, "AssertionError")
        starting_state_fn ==
            Path("starting_states", sender_id, "." \o state_format)
        r2 == get_state(r1, env)
    IN send_message(r2, <<sender_id, "simulate",
           Content("", Location("localfs", Path("trajs", "trajs", traj_format)),
                   <<>>, Location("localfs", starting_state_fn),
                   Location("localfs", Path("", "ala5", ".pdb")))>>)

\* AdaptiveServer._register_Simulator
register_Simulator_(r0, sender_id, state_format, traj_format, env) ==
    LET r1 == IF state_format \in {".xml", ".inpcrd"} THEN r0
              ELSE Raise(r0, "AssertionError")
        \* '%s.%s' % (sender_id, state_format)
        starting_state_fn ==
            Path("starting_states", sender_id, "." \o state_format)
        \* state = self.sampler.get_state(); f.write(state)
        r2 == get_state(r1, env)
    IN send_message(r2, <<sender_id, "simulate",
           Content("", Location("localfs", Path("trajs", sender_id, traj_format)),
                   <<>>, Location("localfs", starting_state_fn),
                   Location("localfs", Path("", "ala5", ".pdb")))>>)

register_AmberSimulator(r, msg, env) ==
    register_Simulator_(attribute(r, msg, "sender_id"), msg.header.sender_id,
                        ".inpcrd", ".nc", env)

register_OpenMMSimulator(r, msg, env) ==
    register_Simulator_(attribute(r, msg, "sender_id"), msg.header.sender_id,
                        ".xml", ".h5", env)

\* register_Modeler as it would be if it addressed its reply to a device
\* other than the sender
register_Modeler_to_other(r, msg, env) ==
    LET traj_fns == [i \in 1..Len(r.state.trajectories) |->
                         r.state.trajectories[i].path]
        other == uuid(CHOOSE d \in Devices : uuid(d) # msg.header.sender_id)
    IN send_message(attribute(r, msg, "sender_id"),
           <<other, "construct_model",
             Content("", Location("localfs",
                             Path("models", msg.header.sender_id, ".h5")),
                     traj_fns, NoLocation, NoLocation)>>)

register_Modeler(r, msg, env) ==
    LET traj_fns == [i \in 1..Len(r.state.trajectories) |->
                         r.state.trajectories[i].path]
    IN send_message(attribute(r, msg, "sender_id"),
           <<msg.header.sender_id, "construct_model",
             Content("", Location("localfs",
                             Path("models", msg.header.sender_id, ".h5")),
                     traj_fns, NoLocation, NoLocation)>>)

\* modeler_done as it would be if the server kept the newest model only and
\* deleted the rows of the older ones
modeler_done_keeping_newest(r0, msg, env) ==
    LET r1 == IF msg.content.output.protocol = "localfs"
              THEN [r0 EXCEPT !.state.models = <<>>]
              ELSE Raise(r0, "AssertionError")
        r2 == set_model_fn(r1, msg.content.output.path, env)
        r3 == send_message(attribute(r2, msg, "sender_id"),
                           <<msg.header.sender_id, "acknowledge_receipt">>)
    IN add_Model(r3, Row(msg.header, msg.content))

\* AdaptiveServer.modeler_done
modeler_done(r0, msg, env) ==
    LET r1 == IF msg.content.output.protocol = "localfs" THEN r0
              ELSE Raise(r0, "AssertionError")
        r2 == set_model_fn(r1, msg.content.output.path, env)
        r3 == send_message(attribute(r2, msg, "sender_id"),
                           <<msg.header.sender_id, "acknowledge_receipt">>)
    IN add_Model(r3, Row(msg.header, msg.content))

simulation_status(r, msg, env) ==
    send_message(attribute(r, msg, "sender_id"),
                 <<msg.header.sender_id, "acknowledge_receipt">>)

\* simulation_done as it would be if it entered the trajectory into the
\* table before it acknowledges the report
simulation_done_recording_first(r0, msg, env) ==
    LET r1 == add_Trajectory(r0, Row(msg.header, msg.content))
    IN send_message(attribute(r1, msg, "sender_id"),
                    <<msg.header.sender_id, "acknowledge_receipt">>)

\* AdaptiveServer.simulation_done
simulation_done(r0, msg, env) ==
    LET r1 == send_message(attribute(r0, msg, "sender_id"),
                           <<msg.header.sender_id, "acknowledge_receipt">>)
    IN add_Trajectory(r1, Row(msg.header, msg.content))

register_Interactor(r, msg, env) ==
    send_message(attribute(r, msg, "sender_id"),
                 <<msg.header.sender_id, "acknowledge_receipt">>)

\* AdaptiveServer.set_beta: any exception of the assignment or of the reply
\* is answered with status 'failure'
set_beta(r0, msg, env) ==
    LET r1 == IF msg.content.value = NoValue THEN Raise(r0, "AttributeError")
              ELSE set_beta_trait(r0, msg.content.value)
        r2 == send_message(attribute(r1, msg, "sender_id"),
                           <<msg.header.sender_id, "set_beta",
                             StatusContent("success", "")>>)
    IN IF r2.raised = "none" THEN r2
       ELSE send_message(attribute([r2 EXCEPT !.raised = "none"], msg,
                                   "sender_id"),
                         <<msg.header.sender_id, "set_beta",
                           StatusContent("failure", r2.raised)>>)

\* AdaptiveServer.get_beta
get_beta(r, msg, env) ==
    LET r1 == attribute(r, msg, "sender_id") IN
    IF r1.raised = "none"
    THEN send_message(r1, <<msg.header.sender_id, "response",
                            BetaContent(r.state.sampler.beta, "sucess")>>)
    ELSE send_message(attribute([r1 EXCEPT !.raised = "none"], msg,
                                "sender_id"),
                      <<msg.header.sender_id, "response",
                        StatusContent("failure", r1.raised)>>)

\* the attributes of the server that _dispatch finds for a message type
Handlers == {"register_AmberSimulator", "register_OpenMMSimulator",
             "register_Modeler", "modeler_done", "simulation_status",
             "simulation_done", "register_Interactor", "set_beta",
             "get_beta"}

responder(name, r, msg, env) ==
    CASE name = "register_AmberSimulator" -> register_AmberSimulator(r, msg, env)
      [] name = "register_OpenMMSimulator" -> register_OpenMMSimulator(r, msg, env)
      [] name = "register_Modeler" -> register_Modeler(r, msg, env)
      [] name = "modeler_done" -> modeler_done(r, msg, env)
      [] name = "simulation_status" -> simulation_status(r, msg, env)
      [] name = "simulation_done" -> simulation_done(r, msg, env)
      [] name = "register_Interactor" -> register_Interactor(r, msg, env)
      [] name = "set_beta" -> set_beta(r, msg, env)
      [] name = "get_beta" -> get_beta(r, msg, env)

\* BaseServer._dispatch on one message: which handler it called ("none" if it
\* called none), whether it logged 'RESPONDER NOT FOUND', and how it ended
dispatch(msg, S, env) ==
    LET r0 == [Running(S) EXCEPT !.audit = env.audit] IN
    IF env.audit = "inbound"
    THEN \* self.messages_collection.save(msg_dict) raises
         [handler |-> "none", logged |-> FALSE, run |-> Raise(r0, "AutoReconnect")]
    ELSE IF "msg_type" \notin msg.has
    THEN \* getattr raises inside the try; the except clause reads
         \* msg.header.msg_type again for its log line and raises itself
         [handler |-> "none", logged |-> FALSE, run |-> Raise(r0, "AttributeError")]
    ELSE IF msg.header.msg_type \notin Handlers
    THEN \* logged; then `responder` is an unbound local
         [handler |-> "none", logged |-> TRUE,
          run |-> Raise(r0, "UnboundLocalError")]
    ELSE IF "content" \notin msg.has
    THEN [handler |-> "none", logged |-> FALSE, run |-> Raise(r0, "AttributeError")]
    ELSE [handler |-> msg.header.msg_type, logged |-> FALSE,
          run |-> responder(msg.header.msg_type, r0, msg, env)]

\* the ROUTER sends a message to the peer whose identity is client_id; with no
\* such peer connected the message is dropped
Route(mb, sock, outgoing) ==
    [d \in Devices |->
        IF sock[d].connected /\ sock[d].identity # NoIdentity
        THEN LET mine == SelectSeq(outgoing,
                                   LAMBDA o: o.client_id = sock[d].identity)
             IN mb[d] \o [k \in 1..Len(mine) |-> mine[k].msg]
        ELSE mb[d]]

\* the messages send_message packs: the k-th gets the server's next uuid4
Outgoing(sent, n, now) ==
    [k \in 1..Len(sent) |->
        [client_id |-> sent[k].client_id,
         msg |-> pack_message(sent[k].msg_type, ServerId, sent[k].content,
                              n + k, now)]]

NoMessage == [has |-> {}, header |-> [sender_id |-> "", msg_id |-> <<"", 0>>,
                                      msg_type |-> "", time |-> 0],
              content |-> EmptyContent]

\* the clients a simulate message of `out` goes to that had none before
NewlyAssigned(before, out) ==
    LET new == SelectSeq(out, LAMBDA o :
                   /\ o.msg.header.msg_type = "simulate"
                   /\ \A k \in 1..Len(before) : before[k] # o.client_id)
    IN [k \in 1..Len(new) |-> new[k].client_id]

\* the ids of the clients of the server
Clients == {uuid(d) : d \in Devices} \cup ForeignIds

\* no assignment sent yet
NoAssignment == [msg_type |-> "", content |-> EmptyContent,
                 selected |-> NoState]

\* the assignments (simulate, construct_model) among the messages `out`,
\* with the state the sampler selected for them
Assignments(old, out, selected) ==
    [c \in Clients |->
        LET mine == SelectSeq(out, LAMBDA o :
                        /\ o.client_id = c
                        /\ o.msg.header.msg_type \in {"simulate",
                                                      "construct_model"})
        IN IF mine = <<>> THEN old[c]
           ELSE [msg_type |-> mine[Len(mine)].msg.header.msg_type,
                 content |-> mine[Len(mine)].msg.content,
                 selected |-> selected]]

\* ZMQStream.on_recv(self._dispatch): the stream calls _dispatch with the
\* frames of one message.  An exception that leaves _dispatch goes to the
\* stream, which (depending on the pyzmq release) either logs it and keeps
\* receiving or closes itself.
Dispatch(f, env, keepsOpen) ==
    /\ streamOpen
    /\ f \in inbox
    /\ \E d \in {dispatch(f.msg, ServerState, env)} :
       \E out \in {Outgoing(d.run.sent, packed[ServerId], 0)} :
          /\ inbox' = inbox \ {f}
          /\ trajectories' = d.run.state.trajectories
          /\ models' = d.run.state.models
          /\ sampler' = d.run.state.sampler
          /\ mailbox' = Route(mailbox, socket, out)
          /\ packed' = [packed EXCEPT ![ServerId] = @ + Len(out)]
          /\ streamOpen' = (d.run.raised = "none" \/ keepsOpen)
          /\ lastDispatch' = [msg |-> f.msg, handler |-> d.handler,
                              logged |-> d.logged, raised |-> d.run.raised,
                              sent |-> out, before |-> ServerState,
                              env |-> env, selected |-> d.run.selected,
                              previous |->
                                  IF f.msg.header.sender_id \in Clients
                                  THEN assignment[f.msg.header.sender_id]
                                  ELSE NoAssignment]
          /\ assignment' = Assignments(assignment, out, d.run.selected)
          /\ assigned' = assigned \o NewlyAssigned(assigned, out)
          /\ reported' =
               IF d.handler = "simulation_done"
                  /\ \A k \in 1..Len(reported) :
                        reported[k].sender_id # f.msg.header.sender_id
               THEN Append(reported, [sender_id |-> f.msg.header.sender_id,
                                      path |-> f.msg.content.output.path])
               ELSE reported
    /\ UNCHANGED <<running, reindexed, devVars, clock, foreignLeft, slow>>

\* ----------------------------------------------------------------- devices

\* 'register_%s' % self.__class__.__name__
RegisterType(c) ==
    CASE c = "Simulator" -> "register_Simulator"
      [] c = "AmberSimulator" -> "register_AmberSimulator"
      [] c = "Modeler" -> "register_Modeler"
      [] c = "Interactor" -> "register_Interactor"

IsRegistration(t) == t \in {RegisterType(c) : c \in Classes}

NoRequest == [msg_type |-> "", content |-> EmptyContent]
NoCall == [msg_type |-> "", first |-> 0, sends |-> 0, replies |-> 0,
           outcome |-> "none", sentAfterReply |-> FALSE]

\* time.time() moves on between two reports; the time of a registration is
\* read by nobody
Tick(msg_type) == IF IsRegistration(msg_type) THEN clock ELSE clock + 1

Now(msg_type) == IF IsRegistration(msg_type) THEN 0 ELSE clock

\* a device enters send_recv(msg_type, content)
EnterSendRecv(d, msg_type, content) ==
    /\ request' = [request EXCEPT ![d] = [msg_type |-> msg_type,
                                          content |-> content]]
    /\ attempt' = [attempt EXCEPT ![d] = 0]
    /\ call' = [call EXCEPT ![d] = [msg_type |-> msg_type,
                                    first |-> packed[d] + 1, sends |-> 0,
                                    replies |-> 0, outcome |-> "running",
                                    sentAfterReply |-> FALSE]]
    /\ pc' = [pc EXCEPT ![d] = "send"]

\* Device.start: the socket gets the uuid as its identity, connects, and the
\* device registers
Start(d) ==
    /\ pc[d] = "boot"
    /\ socket' = [socket EXCEPT ![d] = [connected |-> TRUE,
                                        identity |-> uuid(d)]]
    /\ EnterSendRecv(d, RegisterType(class[d]), EmptyContent)
    /\ UNCHANGED <<running, reindexed, class, mailbox, startup, packed, clock, inbox, srvVars,
                   foreignLeft, slow>>

\* send_recv, after the poll of the i-th send (i = 1, 2, ...): return the
\* reply, go round the loop again, or leave the loop and raise IOError
SendRecvOneMore(i, gotReply) ==
    IF gotReply THEN "return"
    ELSE IF i <= retries THEN "send"
    ELSE "IOError"

SendRecvAfterPoll(i, gotReply) ==
    IF gotReply THEN "return"
    ELSE IF i < retries THEN "send"
    ELSE "IOError"

\* send_recv: self.send_message(msg_type, content) on the current socket
Send(d) ==
    /\ pc[d] = "send"
    /\ LET msg == pack_message(request[d].msg_type, uuid(d), request[d].content,
                               packed[d] + 1, Now(request[d].msg_type))
       IN inbox' = inbox \cup {[client |-> socket[d].identity, msg |-> msg]}
    /\ packed' = [packed EXCEPT ![d] = @ + 1]
    /\ clock' = Tick(request[d].msg_type)
    /\ attempt' = [attempt EXCEPT ![d] = @ + 1]
    /\ call' = [call EXCEPT ![d].sends = @ + 1,
                            ![d].sentAfterReply = (call[d].replies > 0)]
    /\ pc' = [pc EXCEPT ![d] = "poll"]
    /\ UNCHANGED <<running, reindexed, class, request, socket, mailbox, startup, srvVars,
                   foreignLeft, slow>>

\* where send_recv's caller goes on with the reply: Device.start hands the
\* reply to the registration to on_startup_message; a report's reply ends
\* the handler, and with it the process
AfterReturn(msg_type) ==
    IF IsRegistration(msg_type) THEN "startup" ELSE "finished"

\* send_recv: poller.poll(timeout_ms) finds a reply; recv_message returns it
PollReply(d) ==
    /\ pc[d] = "poll"
    /\ mailbox[d] # <<>>
    /\ LET next == SendRecvAfterPoll(attempt[d], TRUE) IN
       /\ pc' = [pc EXCEPT ![d] = IF next = "return"
                                  THEN AfterReturn(request[d].msg_type)
                                  ELSE next]
       /\ call' = [call EXCEPT ![d].replies = @ + 1,
                               ![d].outcome = IF next = "return" THEN "returned"
                                              ELSE IF next = "send" THEN @
                                              ELSE next]
    /\ startup' = [startup EXCEPT ![d] =
                      IF IsRegistration(request[d].msg_type)
                      THEN Head(mailbox[d]) ELSE @]
    /\ mailbox' = [mailbox EXCEPT ![d] = Tail(@)]
    /\ UNCHANGED <<running, reindexed, class, request, attempt, socket, packed, clock, inbox,
                   srvVars, foreignLeft, slow>>

\* the server is receiving and a message of d waits in its queue
Queued(d) ==
    streamOpen /\ \E f \in inbox : f.msg.header.sender_id = uuid(d)

\* the socket send_recv opens after a timeout: self.ctx.socket(zmq.REQ) and
\* connect, with no IDENTITY set on it
Reconnected(d) == [connected |-> TRUE, identity |-> NoIdentity]

\* send_recv: the poll times out; the socket is closed and a new one is
\* connected; then the next round of the loop, or IOError after the last
PollTimeout(d) ==
    /\ pc[d] = "poll"
    /\ mailbox[d] = <<>>
    /\ IF Queued(d) THEN slow < MaxSlow /\ slow' = slow + 1
                    ELSE slow' = slow
    /\ socket' = [socket EXCEPT ![d] = Reconnected(d)]
    /\ LET next == SendRecvAfterPoll(attempt[d], FALSE) IN
       /\ pc' = [pc EXCEPT ![d] = next]
       /\ call' = [call EXCEPT ![d].outcome = IF next = "send" THEN @ ELSE next]
    /\ UNCHANGED <<running, reindexed, class, request, attempt, mailbox, startup, packed, clock,
                   inbox, srvVars, foreignLeft>>

\* on_startup_message as it would be without its assert
AllowedAnything(c) == {"acknowledge_receipt", "simulate", "construct_model"}

\* the message types a device class accepts as its startup message
Allowed(c) ==
    CASE c \in {"Simulator", "AmberSimulator"} -> {"simulate"}
      [] c = "Modeler" -> {"construct_model"}
      [] c = "Interactor" -> {"acknowledge_receipt", "simulate", "construct_model"}

\* Modeler.load_trajectories: the files that are not there are skipped, and
\* with no trajectory loaded it raises ValueError; `works` is whether the
\* files of the list are there
load_trajectories(traj_fns, works) ==
    IF works /\ traj_fns # <<>> THEN "loaded" ELSE "ValueError"

\* construct_model as it would be if it went on to its report whatever it
\* has loaded
construct_model_whatever_loaded(content, works) ==
    IF content.output.protocol # "localfs" THEN "AssertionError"
    ELSE "modeler_done"

\* Modeler.construct_model, up to the statement that ends it: the
\* trajectories are loaded, and the next statement reads the name
\* use_custom_metric, which the module does not define; the report at its
\* end is "modeler_done"
construct_model(content, works) ==
    IF content.output.protocol # "localfs" THEN "AssertionError"
    ELSE IF load_trajectories(content.traj_fns, works) = "ValueError"
    THEN "ValueError"
    ELSE "NameError"

\* on_startup_message of the device's class, with the reply to the
\* registration.  `works` is whether the external step (the MD engine, the
\* loading of the trajectories) succeeds.
\*   Simulator, AmberSimulator: simulate, then report simulation_done
\*   Modeler: construct_model
\*   Interactor: without --set_beta and --shell it raises ValueError
OnStartupMessage(d, works) ==
    /\ pc[d] = "startup"
    /\ LET msg == startup[d] IN
       IF msg.header.msg_type \notin Allowed(class[d])
       THEN /\ pc' = [pc EXCEPT ![d] = "AssertionError"]
            /\ UNCHANGED <<running, reindexed, request, attempt, call>>
       ELSE IF class[d] \in {"Simulator", "AmberSimulator"}
       THEN IF works
            THEN EnterSendRecv(d, "simulation_done",
                     OutputContent("success", msg.content.output.path))
            ELSE /\ pc' = [pc EXCEPT ![d] = "Exception"]
                 /\ UNCHANGED <<running, reindexed, request, attempt, call>>
       ELSE IF class[d] = "Modeler"
       THEN IF construct_model(msg.content, works) = "modeler_done"
            THEN EnterSendRecv(d, "modeler_done",
                     OutputContent("success", msg.content.output.path))
            ELSE /\ pc' = [pc EXCEPT ![d] = construct_model(msg.content, works)]
                 /\ UNCHANGED <<running, reindexed, request, attempt, call>>
       ELSE /\ pc' = [pc EXCEPT ![d] = "ValueError"]
            /\ UNCHANGED <<running, reindexed, request, attempt, call>>
    /\ UNCHANGED <<running, reindexed, class, socket, mailbox, startup, packed, clock, inbox,
                   srvVars, foreignLeft, slow>>

\* ---------------------------------------------------------- other clients

ModelPath(id) == Path("models", id, ".h5")
TrajPath(id) == Path("trajs", id, ".h5")

\* frames a client that is not a Device of the repository sends: a status
\* report, a model report, and the model report with one of the three
\* required fields left out
WellFormed(x, n, now) ==
    {pack_message("simulation_status", x, Content("inprogress", NoLocation,
                    <<>>, NoLocation, NoLocation), n, now),
     pack_message("modeler_done", x, OutputContent("success", ModelPath(x)),
                  n, now)}

Without(msg, field) == [msg EXCEPT !.has = @ \ {field}]

ForeignMessages(x, n, now) ==
    WellFormed(x, n, now)
    \cup {Without(m, field) :
            m \in {w \in WellFormed(x, n, now) :
                     w.header.msg_type = "modeler_done"},
            field \in AllFields}

ForeignSend(x, msg) ==
    /\ foreignLeft > 0
    /\ msg \in ForeignMessages(x, packed[x] + 1, clock)
    /\ inbox' = inbox \cup {[client |-> x, msg |-> msg]}
    /\ packed' = [packed EXCEPT ![x] = @ + 1]
    /\ clock' = Tick(msg.header.msg_type)
    /\ foreignLeft' = foreignLeft - 1
    /\ UNCHANGED <<running, reindexed, devVars, mailbox, srvVars, slow>>

\* ------------------------------------------------------------ the system

\* what is in a model file: the counts per state (the row sums of the counts
\* matrix) and the populations; `readable` is whether the file, which opens,
\* has the arrays of the counts matrix
ModelFile == [counts |-> <<1, 3>>, populations |-> [num |-> <<1, 3>>, den |-> 4],
              readable |-> TRUE]
\* a model whose populations sum to 1.2
InconsistentFile == [counts |-> <<2, 1, 1>>,
                     populations |-> [num |-> <<3, 2, 1>>, den |-> 5],
                     readable |-> TRUE]
\* an HDF5 file without the arrays of a model
UnreadableFile == [counts |-> <<>>, populations |-> [num |-> <<>>, den |-> 1],
                   readable |-> FALSE]
ModelFiles == {ModelFile, InconsistentFile, UnreadableFile}

\* what a handler finds outside the server: whether the model file opens
\* (loadOk) and what is in it, whether the seed structures (or the model's
\* generators) and the starting state file can be read and written (stateOk),
\* the frame np.random.randint draws and the number np.random.rand draws,
\* and what the audit database does
NoEnvironment == [loadOk |-> TRUE, stateOk |-> TRUE, file |-> ModelFile,
                  frame |-> 0, rand |-> 1, audit |-> "none"]

\* the environments of the first specification: the random draws are fixed
Environments(msg) ==
    [loadOk : IF msg.header.msg_type = "modeler_done" THEN BOOLEAN ELSE {TRUE},
     stateOk : IF msg.header.msg_type \in {"register_AmberSimulator",
                                           "register_OpenMMSimulator"}
               THEN BOOLEAN ELSE {TRUE},
     file : {ModelFile}, frame : {0}, rand : {1}, audit : {"none"}]

\* what is run against the server: the classes of the two devices, and how
\* many frames other clients send
Deployments ==
    {[class |-> [d1 |-> "AmberSimulator", d2 |-> "AmberSimulator"], foreign |-> 0],
     [class |-> [d1 |-> "AmberSimulator", d2 |-> "Modeler"], foreign |-> 0],
     [class |-> [d1 |-> "Simulator", d2 |-> "Interactor"], foreign |-> MaxForeign]}

Senders == Devices \cup ForeignIds \cup {ServerId}

\* the server is up, no device has started
Initially(classes, frames) ==
    /\ class = classes
    /\ foreignLeft = frames
    /\ pc = [d \in Devices |-> "boot"]
    /\ request = [d \in Devices |-> NoRequest]
    /\ attempt = [d \in Devices |-> 0]
    /\ socket = [d \in Devices |-> [connected |-> FALSE, identity |-> NoIdentity]]
    /\ mailbox = [d \in Devices |-> <<>>]
    /\ startup = [d \in Devices |-> NoMessage]
    /\ call = [d \in Devices |-> NoCall]
    /\ packed = [s \in Senders |-> 0]
    /\ clock = 1
    /\ inbox = {}
    /\ trajectories = <<>>
    /\ models = <<>>
    /\ sampler = NoSampler
    /\ streamOpen = TRUE
    /\ lastDispatch = [msg |-> NoMessage, handler |-> "none", logged |-> FALSE,
                       raised |-> "none", sent |-> <<>>,
                       before |-> [trajectories |-> <<>>, models |-> <<>>,
                                   sampler |-> NoSampler],
                       env |-> NoEnvironment, selected |-> NoState,
                       previous |-> NoAssignment]
    /\ assignment = [c \in Clients |-> NoAssignment]
    /\ assigned = <<>>
    /\ reported = <<>>
    /\ slow = 0
    /\ running = <<>>
    /\ reindexed = NoReindex

Init == \E dep \in Deployments : Initially(dep.class, dep.foreign)

Next ==
    \/ \E d \in Devices : Start(d)
    \/ \E d \in Devices : Send(d)
    \/ \E d \in Devices : PollReply(d)
    \/ \E d \in Devices : PollTimeout(d)
    \/ \E d \in Devices, works \in BOOLEAN : OnStartupMessage(d, works)
    \/ \E f \in inbox : \E env \in Environments(f.msg), keepsOpen \in BOOLEAN :
           Dispatch(f, env, keepsOpen)
    \/ \E x \in ForeignIds : \E msg \in ForeignMessages(x, packed[x] + 1, clock) :
           ForeignSend(x, msg)

Spec == Init /\ [][Next]_vars

\* ------------------------------------------- the server and its clients
\* The second specification: the server against whatever its clients send.
\* A client is any process that puts the frames of a device on the wire (a
\* device of any class at any point of its life, one that was restarted, one
\* of another program); its replies are not followed.

\* the values a client asks beta to be set to
BetaValues == {2, NotANumber}

\* the frames of a client
ClientMessages(c, n, now) ==
    {pack_message(t, c, EmptyContent, n, now) :
        t \in {"register_Simulator", "register_AmberSimulator",
                "register_Modeler", "register_Interactor", "get_beta"}}
    \cup {pack_message("simulation_done", c,
                       OutputContent("success", TrajPath(c)), n, now),
          pack_message("modeler_done", c,
                       OutputContent("success", ModelPath(c)), n, now)}
    \cup {pack_message("set_beta", c, ValueContent(v), n, now) :
             v \in BetaValues}

ClientSend(c, msg) ==
    /\ foreignLeft > 0
    /\ Cardinality(inbox) < MaxQueue
    /\ msg \in ClientMessages(c, packed[c] + 1, clock)
    /\ inbox' = inbox \cup {[client |-> c, msg |-> msg]}
    /\ packed' = [packed EXCEPT ![c] = @ + 1]
    /\ clock' = Tick(msg.header.msg_type)
    /\ foreignLeft' = foreignLeft - 1
    /\ UNCHANGED <<running, reindexed, devVars, mailbox, srvVars, slow>>

\* the environments of the second specification: every outcome of the files
\* and of the random draws, the draws a handler does not make being fixed
ServerEnvironments(msg) ==
    IF msg.header.msg_type = "modeler_done"
    THEN {[NoEnvironment EXCEPT !.loadOk = FALSE]}
         \cup {[NoEnvironment EXCEPT !.file = file] : file \in ModelFiles}
    ELSE IF msg.header.msg_type \in {"register_AmberSimulator",
                                     "register_OpenMMSimulator"}
    THEN {[NoEnvironment EXCEPT !.stateOk = FALSE]}
         \cup IF sampler.model = NoModel \/ sampler.weights = <<>>
              THEN {[NoEnvironment EXCEPT !.frame = frame] :
                       frame \in 0..(NSeeds - 1)}
              ELSE {[NoEnvironment EXCEPT !.rand = rand] :
                       rand \in 1..RandSteps}
    ELSE {NoEnvironment}

InitServer ==
    Initially([d \in Devices |-> "AmberSimulator"], MaxFrames)

NextServer ==
    \/ \E c \in Clients : \E msg \in ClientMessages(c, packed[c] + 1, clock) :
           ClientSend(c, msg)
    \/ \E f \in inbox : \E env \in ServerEnvironments(f.msg),
                          keepsOpen \in BOOLEAN :
           Dispatch(f, env, keepsOpen)

SpecServer == InitServer /\ [][NextServer]_vars

\* ------------------------------------- the server with its audit database
\* The server, connected to the audit database, against the frames of its
\* clients: a write to the database succeeds or raises.

AuditEnvironments ==
    {[NoEnvironment EXCEPT !.audit = audit] :
        audit \in {"ok", "inbound", "outbound"}}

InitAudit ==
    Initially([d \in Devices |-> "AmberSimulator"], AuditFrames)

NextAudit ==
    \/ \E c \in Clients : \E msg \in ClientMessages(c, packed[c] + 1, clock) :
           ClientSend(c, msg)
    \/ \E f \in inbox : \E env \in AuditEnvironments, keepsOpen \in BOOLEAN :
           Dispatch(f, env, keepsOpen)

SpecAudit == InitAudit /\ [][NextAudit]_vars

\* ---------------------------------------------------- the sampler alone
\* The sampler by itself: a CountsSampler given the model of some counts,
\* its beta set, its weights reset and states selected from it, in any order.

\* the values beta is set to: far below 1, below 1, 1,
\* above 1 and far above 1
Betas == {2 - MaxBeta, 0, 1, 2, MaxBeta}

\* the counts per state of the models: at most MaxStates states of at most
\* MaxCount counts each, the states numbered in the order of their counts
CountVectors ==
    {c \in UNION {[1..n -> 0..MaxCount] : n \in 1..MaxStates} :
        \A i \in 1..(Len(c) - 1) : c[i] <= c[i + 1]}

WeightFiles ==
    {[counts |-> c, populations |-> [num |-> <<>>, den |-> 1],
      readable |-> TRUE] : c \in CountVectors}

\* a call of a method of the sampler, as the history keeps it
Called(name, r, env) ==
    [msg |-> NoMessage, handler |-> name, logged |-> FALSE,
     raised |-> r.raised, sent |-> <<>>, before |-> ServerState,
     env |-> env, selected |-> r.selected, previous |-> NoAssignment]

Call(name, r, env) ==
    /\ \E run \in {r} :
          /\ sampler' = run.state.sampler
          /\ lastDispatch' = Called(name, run, env)
    /\ UNCHANGED <<running, reindexed, devVars, mailbox, packed, clock, inbox, trajectories,
                   models, streamOpen, foreignLeft, assigned, reported,
                   assignment, slow>>

\* sampler.model = MarkovStateModel.load(...), of a sampler without a model
SetModel(file) ==
    /\ sampler.model = NoModel
    /\ Call("set_model",
            set_model(Running(ServerState), load(ModelPath(ServerId), file)),
            [NoEnvironment EXCEPT !.file = file])

\* sampler.beta = new_beta
SetBeta(new_beta) ==
    Call("set_beta", set_beta_trait(Running(ServerState), new_beta),
         NoEnvironment)

\* sampler.reset_weights()
ResetWeights ==
    Call("reset_weights", reset_weights(Running(ServerState)), NoEnvironment)

\* sampler.select()
Select(rand) ==
    Call("select", select(Running(ServerState),
                          [NoEnvironment EXCEPT !.rand = rand]),
         [NoEnvironment EXCEPT !.rand = rand])

InitWeights == Initially([d \in Devices |-> "AmberSimulator"], 0)

NextWeights ==
    \/ \E file \in WeightFiles : SetModel(file)
    \/ \E new_beta \in Betas : SetBeta(new_beta)
    \/ ResetWeights
    \/ \E rand \in 1..RandSteps : Select(rand)

SpecWeights == InitWeights /\ [][NextWeights]_vars

\* --------------------------------------------------- messages on the wire
\* A message from pack_message to the Message the receiver makes of it.
\* send_json writes the dict as JSON text, the receiver reads the text with
\* yaml.load.  A Python value is its type and the characters of its repr.

Digits == {"0", "1", "2", "3", "4", "5", "6", "7", "8", "9"}

Str(chars) == [type |-> "str", repr |-> chars]
Number(type, chars) == [type |-> type, repr |-> chars]
None == [type |-> "NoneType", repr |-> <<"n", "u", "l", "l">>]
Dict(items) == [type |-> "dict", items |-> items]

\* json.dumps: a str in quotes, a number as its repr, None as null, a dict
\* as an object
RECURSIVE json_dumps(_)
json_dumps(v) ==
    IF v.type = "dict"
    THEN [object |-> [k \in DOMAIN v.items |-> json_dumps(v.items[k])]]
    ELSE [quoted |-> v.type = "str", chars |-> v.repr]

IsDigits(chars) == chars # <<>> /\ \A i \in 1..Len(chars) : chars[i] \in Digits

Unsigned(chars) ==
    IF chars # <<>> /\ chars[1] \in {"-", "+"} THEN Tail(chars) ELSE chars

\* the first place of the character in the text, 0 if it is not there
IndexOf(chars, ch) ==
    IF \E i \in 1..Len(chars) : chars[i] = ch
    THEN CHOOSE i \in 1..Len(chars) :
             chars[i] = ch /\ \A j \in 1..(i - 1) : chars[j] # ch
    ELSE 0

\* yaml resolves a plain scalar to an int: [-+]?(0|[1-9][0-9]*)
IsYamlInt(chars) ==
    LET u == Unsigned(chars) IN
    IsDigits(u) /\ (Len(u) = 1 \/ u[1] # "0")

\* yaml resolves a plain scalar to a float:
\* [-+]?[0-9][0-9]*\.[0-9]*([eE][-+][0-9]+)?
IsYamlFloat(chars) ==
    LET u == Unsigned(chars)
        dot == IndexOf(u, ".")
        rest == SubSeq(u, dot + 1, Len(u))
        e == IndexOf(rest, "e")
        fraction == IF e = 0 THEN rest ELSE SubSeq(rest, 1, e - 1)
    IN /\ dot > 1
       /\ IsDigits(SubSeq(u, 1, dot - 1))
       /\ fraction = <<>> \/ IsDigits(fraction)
       /\ e # 0 => /\ Len(rest) > e + 1
                   /\ rest[e + 1] \in {"-", "+"}
                   /\ IsDigits(SubSeq(rest, e + 2, Len(rest)))

\* yaml.load of JSON text: a quoted scalar is a str, a plain scalar is what
\* the resolver takes it for, and a str if it takes it for nothing else
RECURSIVE yaml_load(_)
yaml_load(text) ==
    IF "object" \in DOMAIN text
    THEN Dict([k \in DOMAIN text.object |-> yaml_load(text.object[k])])
    ELSE IF text.quoted THEN Str(text.chars)
    ELSE IF IsYamlInt(text.chars) THEN Number("int", text.chars)
    ELSE IF IsYamlFloat(text.chars) THEN Number("float", text.chars)
    ELSE IF text.chars = None.repr THEN None
    ELSE Str(text.chars)

\* Message(msg_dict): the keys of the dict and of its header as attributes
Message(msg_dict) ==
    [has |-> DOMAIN msg_dict.items \cup {"sender_id", "msg_type"},
     header |-> msg_dict.items.header.items,
     content |-> msg_dict.items.content]

\* time.time(), a float: the seconds and the tenth of a second
Time(now) ==
    Number("float",
           <<"1", "3", "8", "4", ".",
             <<"0", "1", "2", "3", "4", "5", "6", "7", "8", "9">>[(now % 10) + 1]>>)

\* pack_message with the tests it makes of its arguments: the dict, or the
\* ValueError
pack(msg_type, sender_id, content, n, now) ==
    IF msg_type.type # "str" \/ content.type # "dict"
    THEN [raised |-> "ValueError", msg |-> None]
    ELSE LET m == pack_message(msg_type, sender_id, content, n, now) IN
         [raised |-> "none",
          msg |-> Dict([header |->
                           Dict([sender_id |-> Str(<<m.header.sender_id>>),
                                 msg_id |-> Str(<<m.header.msg_id>>),
                                 msg_type |-> m.header.msg_type,
                                 time |-> Time(m.header.time)]),
                        content |-> m.content])]

\* what the devices pass to send_message as msg_type
WireTypes == {Str(<<"set_beta">>), None}

\* and as content: dicts with numbers, a str and None in them, the empty
\* dict, and values that are no dict
WireValues ==
    {Number("int", <<"2">>),
     Number("float", <<"0", ".", "5">>),
     Number("float", <<"1", ".", "5", "e", "-", "0", "5">>),
     Number("float", <<"1", "e", "-", "0", "5">>),
     Str(<<"1", "e", "-", "0", "5">>),
     None}

WireContents ==
    {Dict([value |-> v]) : v \in WireValues}
    \cup {Dict(<<>>), Str(<<"value">>), None}

\* Device.send_message(msg_type, content), the first the device sends
DeviceSendMessage(d, msg_type, content) ==
    /\ call[d].outcome = "none"
    /\ request' = [request EXCEPT ![d] = [msg_type |-> msg_type,
                                          content |-> content]]
    /\ \E p \in {pack(msg_type, uuid(d), content, packed[d] + 1, clock)} :
          /\ call' = [call EXCEPT ![d] =
                         [msg_type |-> msg_type, first |-> packed[d] + 1,
                          sends |-> IF p.raised = "none" THEN 1 ELSE 0,
                          replies |-> 0,
                          outcome |-> IF p.raised = "none" THEN "sent"
                                      ELSE p.raised,
                          sentAfterReply |-> FALSE]]
          /\ inbox' = IF p.raised = "none"
                      THEN inbox \cup {[client |-> uuid(d),
                                        msg |-> json_dumps(p.msg)]}
                      ELSE inbox
          /\ packed' = IF p.raised = "none"
                       THEN [packed EXCEPT ![d] = @ + 1]
                       ELSE packed
    /\ UNCHANGED <<running, reindexed, class, pc, attempt, socket, startup, mailbox, clock,
                   srvVars, foreignLeft, slow>>

\* _dispatch, its first statements: msg = Message(yaml.load(raw_msg))
Receive(f) ==
    /\ f \in inbox
    /\ inbox' = inbox \ {f}
    /\ lastDispatch' = [Called("yaml.load", Running(ServerState), NoEnvironment)
                           EXCEPT !.msg = Message(yaml_load(f.msg))]
    /\ UNCHANGED <<running, reindexed, devVars, mailbox, packed, clock, trajectories, models,
                   sampler, streamOpen, foreignLeft, assigned, reported,
                   assignment, slow>>

InitWire == Initially([d \in Devices |-> "Interactor"], 0)

NextWire ==
    \/ \E d \in Devices, msg_type \in WireTypes, content \in WireContents :
           DeviceSendMessage(d, msg_type, content)
    \/ \E f \in inbox : Receive(f)

SpecWire == InitWire /\ [][NextWire]_vars

\* ------------------------------------------- the devices and any server
\* The third specification: the devices against a server built on BaseServer
\* whose handlers answer a message with a message of any type.

ReplyTypes == {"acknowledge_receipt", "simulate", "construct_model"}

\* the content of a reply: the output location the server names, and in a
\* construct_model the trajectories it lists, one (`listed`) or none
ReplyContent(msg_type, sender_id, listed) ==
    IF msg_type = "simulate"
    THEN Content("", Location("localfs", TrajPath(sender_id)), <<>>,
                 NoLocation, NoLocation)
    ELSE IF msg_type = "construct_model"
    THEN Content("", Location("localfs", ModelPath(sender_id)),
                 IF listed THEN <<TrajPath(sender_id)>> ELSE <<>>,
                 NoLocation, NoLocation)
    ELSE EmptyContent

\* the server handles the message f and sends one message of type msg_type to
\* its sender: BaseServer.send_message(header.sender_id, msg_type, content)
Reply(f, msg_type, listed) ==
    /\ f \in inbox
    /\ "sender_id" \in f.msg.has
    /\ inbox' = inbox \ {f}
    /\ LET r == send_message(Running(ServerState),
                   <<f.msg.header.sender_id, msg_type,
                     ReplyContent(msg_type, f.msg.header.sender_id, listed)>>)
       IN mailbox' = Route(mailbox, socket,
                           Outgoing(r.sent, packed[ServerId], 0))
    /\ packed' = [packed EXCEPT ![ServerId] = @ + 1]
    /\ UNCHANGED <<running, reindexed, devVars, clock, srvVars, foreignLeft, slow>>

InitStartup == \E dep \in Deployments : Initially(dep.class, 0)

NextStartup ==
    \/ \E d \in Devices : Start(d)
    \/ \E d \in Devices : Send(d)
    \/ \E d \in Devices : PollReply(d)
    \/ \E d \in Devices : PollTimeout(d)
    \/ \E d \in Devices, works \in BOOLEAN : OnStartupMessage(d, works)
    \/ \E f \in inbox, msg_type \in ReplyTypes, listed \in BOOLEAN :
           Reply(f, msg_type, listed)

SpecStartup == InitStartup /\ [][NextStartup]_vars

\* ------------------------------------- the server on an existing database
\* The server started on the database an earlier run left, and started again
\* whenever it has stopped receiving: initialize_sampler looks for a model in
\* the models table; then the server handles the frames of its clients.

\* the models tables the server finds: the rows in the order of their ids,
\* each with the time its sender gave it
StoredModels ==
    UNION {[1..n -> {[time |-> t, protocol |-> "localfs",
                      path |-> ModelPath(uuid(d))] :
                        t \in 1..MaxRows, d \in Devices}] : n \in 0..MaxRows}

\* the trajectories tables it finds: n rows of one simulator
StoredTrajectories ==
    {[i \in 1..n |-> [time |-> i, protocol |-> "localfs",
                      path |-> TrajPath(ServerId)]] : n \in 0..MaxRows}

\* no row: Query.get returns None
NoRow == [time |-> 0, protocol |-> "", path |-> NoPath]

\* session.query(Model).order_by(Model.time.desc()).get(ident): Query.get
\* looks the row up by its primary key and drops the order_by of the query;
\* the keys are given out from 1 in the order of insertion, and no row is
\* ever deleted
get(table, ident) ==
    IF ident \in 1..Len(table) THEN table[ident] ELSE NoRow

\* AdaptiveServer.initialize_sampler: a new CountsSampler, and the model of
\* the row the query returns, if it returns one
initialize_sampler(r, env) ==
    LET r1 == [r EXCEPT !.state.sampler = NoSampler]
        last_model == get(r.state.models, 1)
    IN IF last_model # NoRow THEN set_model_fn(r1, last_model.path, env)
       ELSE r1

\* AdaptiveServer.start, the server not receiving: the sampler is
\* initialized and the loop started; an exception of initialize_sampler ends
\* start before the loop runs
StartServer(env) ==
    /\ ~streamOpen
    /\ \E run \in {initialize_sampler(Running(ServerState), env)} :
          /\ sampler' = run.state.sampler
          /\ streamOpen' = (run.raised = "none")
          /\ lastDispatch' = Called("initialize_sampler", run, env)
    /\ UNCHANGED <<running, reindexed, devVars, mailbox, packed, clock, inbox, trajectories,
                   models, foreignLeft, assigned, reported, assignment, slow>>

\* what initialize_sampler finds outside the server: the model file of the
\* row, if there is a row
StartEnvironments ==
    IF models = <<>> THEN {NoEnvironment}
    ELSE {[NoEnvironment EXCEPT !.loadOk = FALSE]}
         \cup {[NoEnvironment EXCEPT !.file = file] : file \in ModelFiles}

\* the server is not started, the database holds the rows of earlier runs
InitRestart ==
    /\ class = [d \in Devices |-> "AmberSimulator"]
    /\ foreignLeft = RestartFrames
    /\ pc = [d \in Devices |-> "boot"]
    /\ request = [d \in Devices |-> NoRequest]
    /\ attempt = [d \in Devices |-> 0]
    /\ socket = [d \in Devices |-> [connected |-> FALSE, identity |-> NoIdentity]]
    /\ mailbox = [d \in Devices |-> <<>>]
    /\ startup = [d \in Devices |-> NoMessage]
    /\ call = [d \in Devices |-> NoCall]
    /\ packed = [s \in Senders |-> 0]
    /\ clock = 1
    /\ inbox = {}
    /\ trajectories \in StoredTrajectories
    /\ models \in StoredModels
    /\ sampler = NoSampler
    /\ streamOpen = FALSE
    /\ lastDispatch = [msg |-> NoMessage, handler |-> "none", logged |-> FALSE,
                       raised |-> "none", sent |-> <<>>,
                       before |-> [trajectories |-> <<>>, models |-> <<>>,
                                   sampler |-> NoSampler],
                       env |-> NoEnvironment, selected |-> NoState,
                       previous |-> NoAssignment]
    /\ assignment = [c \in Clients |-> NoAssignment]
    /\ assigned = <<>>
    /\ reported = <<>>
    /\ slow = 0
    /\ running = <<>>
    /\ reindexed = NoReindex

NextRestart ==
    \/ \E env \in StartEnvironments : StartServer(env)
    \/ \E c \in Clients : \E msg \in ClientMessages(c, packed[c] + 1, clock) :
           ClientSend(c, msg)
    \/ \E f \in inbox : \E env \in ServerEnvironments(f.msg),
                          keepsOpen \in BOOLEAN :
           Dispatch(f, env, keepsOpen)

SpecRestart == InitRestart /\ [][NextRestart]_vars

\* ------------------------------------------------------------ reindex_list
\* The position of an item in the concatenation of the sublists, as the
\* sublist it is in and its position there.  Positions count from 0, as in
\* the source; a numpy array is a sequence, its item i being at i + 1.

\* np.concatenate([[0], np.cumsum(sublist_lengths)])
cumulative(sublist_lengths) ==
    [i \in 1..(Len(sublist_lengths) + 1) |->
        Sum(SubSeq(sublist_lengths, 1, i - 1))]

\* np.argmax(a): the position of the first occurrence of the largest item;
\* of an empty array it raises ValueError (-1 here)
argmax(a) ==
    IF a = <<>> THEN -1
    ELSE (CHOOSE i \in 1..Len(a) :
              /\ \A j \in 1..Len(a) : a[j] <= a[i]
              /\ \A j \in 1..(i - 1) : a[j] < a[i]) - 1

\* reindex_list(indices, sublist_lengths): the exception it raises, or the
\* rows (k, residual) of its output
reindex_list(indices, sublist_lengths) ==
    LET c == cumulative(sublist_lengths) IN
        IF \E ii \in 1..Len(indices) : indices[ii] >= c[Len(c)]
        THEN [raised |-> "ValueError", output |-> <<>>]
        ELSE [raised |-> "none",
              output |->
                  [ii \in 1..Len(indices) |->
                      LET longindex == indices[ii]
                          k == argmax(SelectSeq(c, LAMBDA x : x <= longindex))
                      IN [k |-> k, residual |-> longindex - c[k + 1]]]]

\* the arguments: the lengths of the trajectories, and positions in their
\* concatenation
SublistLengths ==
    UNION {[1..n -> 0..MaxLength] : n \in 0..MaxSublists}
Indices ==
    UNION {[1..n -> 0..(MaxSublists * MaxLength)] : n \in 1..MaxIndices}

\* the call of reindex_list on the arguments drawn
Reindex ==
    /\ reindexed.raised = "pending"
    /\ \E result \in {reindex_list(reindexed.indices,
                                    reindexed.sublist_lengths)} :
          reindexed' = [reindexed EXCEPT !.raised = result.raised,
                                         !.output = result.output]
    /\ UNCHANGED <<devVars, mailbox, packed, clock, inbox, srvVars,
                   foreignLeft, slow, running>>

InitReindex ==
    /\ class = [d \in Devices |-> "Modeler"]
    /\ foreignLeft = 0
    /\ pc = [d \in Devices |-> "boot"]
    /\ request = [d \in Devices |-> NoRequest]
    /\ attempt = [d \in Devices |-> 0]
    /\ socket = [d \in Devices |-> [connected |-> FALSE, identity |-> NoIdentity]]
    /\ mailbox = [d \in Devices |-> <<>>]
    /\ startup = [d \in Devices |-> NoMessage]
    /\ call = [d \in Devices |-> NoCall]
    /\ packed = [s \in Senders |-> 0]
    /\ clock = 1
    /\ inbox = {}
    /\ trajectories = <<>>
    /\ models = <<>>
    /\ sampler = NoSampler
    /\ streamOpen = TRUE
    /\ lastDispatch = [msg |-> NoMessage, handler |-> "none", logged |-> FALSE,
                       raised |-> "none", sent |-> <<>>,
                       before |-> [trajectories |-> <<>>, models |-> <<>>,
                                   sampler |-> NoSampler],
                       env |-> NoEnvironment, selected |-> NoState,
                       previous |-> NoAssignment]
    /\ assignment = [c \in Clients |-> NoAssignment]
    /\ assigned = <<>>
    /\ reported = <<>>
    /\ slow = 0
    /\ running = <<>>
    /\ reindexed \in [indices : Indices, sublist_lengths : SublistLengths,
                       raised : {"pending"}, output : {<<>>}]

NextReindex == Reindex

SpecReindex == InitReindex /\ [][NextReindex]_vars

\* ------------------------------------------- the handlers, step by step
\* A _dispatch call followed through the changes it makes to the state the
\* handlers share, in the order the source makes them: a trait of the sampler
\* is stored (model_fn and model, or beta), its change handler recomputes the
\* weights and the cumulative weights, and the rows are added when the
\* handler's last statements run.  The server has one thread: the IOLoop
\* calls _dispatch for a message when no callback is running.

\* the IOLoop is between two callbacks
LoopAlwaysIdle(calls) == TRUE

LoopIdle(calls) == calls = <<>>

\* the state a call has made of the state it began on, at each of its steps
Observed(a) ==
    IF a.at = "begun" THEN a.before
    ELSE IF a.at = "stored"
    THEN [a.before EXCEPT !.sampler.model_fn = a.d.run.state.sampler.model_fn,
                          !.sampler.model = a.d.run.state.sampler.model,
                          !.sampler.beta = a.d.run.state.sampler.beta]
    ELSE [a.before EXCEPT !.sampler = a.d.run.state.sampler]

\* the stream calls _dispatch with the frames of one message
Begin(f, env) ==
    /\ streamOpen
    /\ f \in inbox
    /\ LoopIdle(running)
    /\ inbox' = inbox \ {f}
    /\ running' = Append(running,
                     [frame |-> f, env |-> env, before |-> ServerState,
                      d |-> dispatch(f.msg, ServerState, env), at |-> "begun"])
    /\ UNCHANGED <<devVars, mailbox, packed, clock, srvVars, foreignLeft,
                   slow, reindexed>>

\* the call stores the trait
Store(i) ==
    /\ i \in 1..Len(running)
    /\ running[i].at = "begun"
    /\ \E to \in {running[i].d.run.state.sampler} :
          sampler' = [sampler EXCEPT !.model_fn = to.model_fn,
                                     !.model = to.model, !.beta = to.beta]
    /\ running' = [running EXCEPT ![i].at = "stored"]
    /\ UNCHANGED <<devVars, mailbox, packed, clock, inbox, trajectories,
                   models, streamOpen, lastDispatch, foreignLeft, assigned,
                   reported, assignment, slow, reindexed>>

\* the change handler of the trait ends
Recompute(i) ==
    /\ i \in 1..Len(running)
    /\ running[i].at = "stored"
    /\ \E to \in {running[i].d.run.state.sampler} :
          sampler' = [sampler EXCEPT !.weights = to.weights,
                                     !.cumulative_weights = to.cumulative_weights]
    /\ running' = [running EXCEPT ![i].at = "recomputed"]
    /\ UNCHANGED <<devVars, mailbox, packed, clock, inbox, trajectories,
                   models, streamOpen, lastDispatch, foreignLeft, assigned,
                   reported, assignment, slow, reindexed>>

\* the call adds its rows and returns, or its exception goes to the stream
Return(i, keepsOpen) ==
    /\ i \in 1..Len(running)
    /\ running[i].at = "recomputed"
    /\ \E f \in {running[i].frame}, d \in {running[i].d} :
       \E out \in {Outgoing(d.run.sent, packed[ServerId], 0)} :
          /\ trajectories' = trajectories
                 \o SubSeq(d.run.state.trajectories,
                           Len(running[i].before.trajectories) + 1,
                           Len(d.run.state.trajectories))
          /\ models' = models
                 \o SubSeq(d.run.state.models,
                           Len(running[i].before.models) + 1,
                           Len(d.run.state.models))
          /\ mailbox' = Route(mailbox, socket, out)
          /\ packed' = [packed EXCEPT ![ServerId] = @ + Len(out)]
          /\ streamOpen' = (d.run.raised = "none" \/ keepsOpen)
          /\ lastDispatch' = [msg |-> f.msg, handler |-> d.handler,
                              logged |-> d.logged, raised |-> d.run.raised,
                              sent |-> out, before |-> running[i].before,
                              env |-> running[i].env,
                              selected |-> d.run.selected,
                              previous |->
                                  IF f.msg.header.sender_id \in Clients
                                  THEN assignment[f.msg.header.sender_id]
                                  ELSE NoAssignment]
          /\ assignment' = Assignments(assignment, out, d.run.selected)
          /\ assigned' = assigned \o NewlyAssigned(assigned, out)
          /\ reported' =
               IF d.handler = "simulation_done"
                  /\ \A k \in 1..Len(reported) :
                        reported[k].sender_id # f.msg.header.sender_id
               THEN Append(reported, [sender_id |-> f.msg.header.sender_id,
                                      path |-> f.msg.content.output.path])
               ELSE reported
    /\ running' = SubSeq(running, 1, i - 1)
                     \o SubSeq(running, i + 1, Len(running))
    /\ UNCHANGED <<devVars, clock, inbox, sampler, foreignLeft, slow,
                   reindexed>>

InitLoop == Initially([d \in Devices |-> "AmberSimulator"], LoopFrames)

NextLoop ==
    \/ \E c \in Clients : \E msg \in ClientMessages(c, packed[c] + 1, clock) :
           ClientSend(c, msg)
    \/ \E f \in inbox : \E env \in ServerEnvironments(f.msg) : Begin(f, env)
    \/ \E i \in 1..Len(running) : Store(i)
    \/ \E i \in 1..Len(running) : Recompute(i)
    \/ \E i \in 1..Len(running), keepsOpen \in BOOLEAN : Return(i, keepsOpen)

SpecLoop == InitLoop /\ [][NextLoop]_vars

\* ------------------------------------------------------------------ claims

DeviceIds == {uuid(d) : d \in Devices}
Dispatched == lastDispatch.msg # NoMessage
SentTo(id, msg_type) ==
    {k \in 1..Len(lastDispatch.sent) :
        /\ lastDispatch.sent[k].client_id = id
        /\ lastDispatch.sent[k].msg.header.msg_type = msg_type}

\* C1: at every point of a device's life, also after the reconnect that follows
\* a timeout in send_recv, the routing identity of its current socket is the
\* uuid it puts in header.sender_id of the messages it sends.
C1_IdentityIsSenderId ==
    /\ \A d \in Devices : socket[d].connected => socket[d].identity = uuid(d)
    /\ \A f \in inbox :
         f.msg.header.sender_id \in DeviceIds => f.client = f.msg.header.sender_id

\* C2: for every simulation_done, simulation_status and modeler_done message
\* the server handles (the files it names being readable), the handler sends
\* exactly one acknowledge_receipt, addressed to the message's sender_id.
C2_ReportsAreAcknowledged ==
    (/\ lastDispatch.handler \in {"simulation_done", "simulation_status",
                                  "modeler_done"}
     /\ lastDispatch.msg.has = AllFields
     /\ lastDispatch.env.loadOk)
    => /\ Len(lastDispatch.sent) = 1
       /\ SentTo(lastDispatch.msg.header.sender_id, "acknowledge_receipt") = {1}

\* C3: send_recv sends its request at most `retries` times, sends nothing once
\* it has a reply, and ends with IOError exactly when no attempt got a reply
\* (and then after `retries` sends).
C3_SendRecvBounded ==
    \A d \in Devices :
        /\ call[d].sends <= retries
        /\ ~call[d].sentAfterReply
        /\ call[d].replies <= 1
        /\ call[d].outcome = "IOError" =>
              call[d].sends = retries /\ call[d].replies = 0
        /\ call[d].outcome = "returned" =>
              call[d].replies = 1 /\ call[d].sends >= 1
        /\ (pc[d] = "IOError") = (call[d].outcome = "IOError")
        /\ call[d].outcome = "running" => call[d].replies = 0

\* a send_recv that sent `retries` times, got no reply and raised IOError
C3_Exhausted ==
    \E d \in Devices :
        /\ pc[d] = "IOError"
        /\ call[d].sends = retries
        /\ call[d].replies = 0

\* C4: if the server handles a later attempt (the second or third send) of a
\* request and replies to it, the send_recv that sent it does not end with
\* its retries exhausted.
C4_RetryRecovers ==
    \A d \in Devices :
        (/\ lastDispatch.msg.header.sender_id = uuid(d)
         /\ lastDispatch.msg.header.msg_type = call[d].msg_type
         /\ lastDispatch.msg.header.msg_id[2] > call[d].first
         /\ \E k \in 1..Len(lastDispatch.sent) :
               lastDispatch.sent[k].client_id = uuid(d))
        => call[d].outcome # "IOError"

\* C5: a well-formed message whose type has no handler is logged and dropped:
\* no handler runs, nothing is sent, the tables and the sampler stay as they
\* are, and no error leaves _dispatch.
C5_UnroutableIsDropped ==
    (/\ Dispatched
     /\ lastDispatch.msg.has = AllFields
     /\ lastDispatch.msg.header.msg_type \notin Handlers)
    => /\ lastDispatch.logged
       /\ lastDispatch.handler = "none"
       /\ lastDispatch.sent = <<>>
       /\ lastDispatch.before = ServerState
       /\ lastDispatch.raised = "none"
       /\ streamOpen

\* C6: an exception raised inside a handler does not leave _dispatch, and the
\* stream goes on receiving.
C6_HandlerErrorsAreCaught ==
    (Dispatched /\ lastDispatch.handler # "none")
    => lastDispatch.raised = "none" /\ streamOpen

\* C7: a message that lacks header.sender_id, header.msg_type or content is
\* rejected before routing: no handler runs for it, and the tables and the
\* sampler stay as they are.
C7_MalformedIsRejected ==
    (Dispatched /\ lastDispatch.msg.has # AllFields)
    => /\ lastDispatch.handler = "none"
       /\ lastDispatch.before = ServerState

\* the first message a device of a class is to get
FirstMessage(msg_type) ==
    CASE msg_type \in {"register_Simulator", "register_AmberSimulator"} -> "simulate"
      [] msg_type = "register_Modeler" -> "construct_model"
      [] OTHER -> "acknowledge_receipt"

\* C8: the registration a device of any class of the repository sends
\* (register_<ClassName>) is routed to a handler, and (the starting state
\* being available) the handler sends the device its first message.
C8_RegistrationsAreAnswered ==
    (/\ Dispatched
     /\ lastDispatch.msg.header.sender_id \in DeviceIds
     /\ IsRegistration(lastDispatch.msg.header.msg_type)
     /\ lastDispatch.env.stateOk)
    => /\ lastDispatch.handler # "none"
       /\ SentTo(lastDispatch.msg.header.sender_id,
                 FirstMessage(lastDispatch.msg.header.msg_type)) # {}

RowsWithPath(path) ==
    {i \in 1..Len(trajectories) : trajectories[i].path = path}

\* C9: once the server has sent simulate to a simulator and has handled its
\* simulation_done with output path P, the trajectories table holds exactly
\* one row with path P, and a construct_model sent afterwards lists P.
C9_ReportedTrajectoryIsRegistered ==
    \A k \in 1..Len(reported) :
        (\E a \in 1..Len(assigned) : assigned[a] = reported[k].sender_id)
        => /\ Cardinality(RowsWithPath(reported[k].path)) = 1
           /\ \A m \in 1..Len(lastDispatch.sent) :
                lastDispatch.sent[m].msg.header.msg_type = "construct_model"
                => \E t \in 1..Len(lastDispatch.sent[m].msg.content.traj_fns) :
                      lastDispatch.sent[m].msg.content.traj_fns[t]
                          = reported[k].path

\* C10: when two simulators report simulation_done in the reverse order of
\* their dispatch, the rows of both are in the trajectories table, in the
\* order in which the reports were received.
C10_ReportsKeptInOrderReceived ==
    \A i, j \in 1..Len(reported) :
        (/\ i < j
         /\ \E a, b \in 1..Len(assigned) :
               /\ assigned[a] = reported[j].sender_id
               /\ assigned[b] = reported[i].sender_id
               /\ a < b)
        => \E m, n \in 1..Len(trajectories) :
              /\ m < n
              /\ trajectories[m].path = reported[i].path
              /\ trajectories[n].path = reported[j].path

\* the registrations the simulator classes send: Simulator, AmberSimulator,
\* and the OpenMMSimulator the server has a handler for
SimulatorRegistrations ==
    {"register_Simulator", "register_AmberSimulator", "register_OpenMMSimulator"}

\* C11: when a simulator registers while the sampler has no model (or no
\* weights) and the seed structures can be read, the server sends it a simulate
\* message, and the state it writes for it is a frame of the seed structures.
C11_SeedsWhenNoModel ==
    (/\ Dispatched
     /\ lastDispatch.msg.has = AllFields
     /\ lastDispatch.msg.header.msg_type \in SimulatorRegistrations
     /\ \/ lastDispatch.before.sampler.model = NoModel
        \/ lastDispatch.before.sampler.weights = <<>>
     /\ lastDispatch.env.stateOk)
    => /\ SentTo(lastDispatch.msg.header.sender_id, "simulate") # {}
       /\ lastDispatch.selected.source = "seed_structures"

PopulationsSumToOne(file) == Sum(file.populations.num) = file.populations.den

\* C12: when modeler_done names a model file whose populations do not sum to 1,
\* the sampler's model and weights after the handler are those before it, and
\* the stream goes on receiving.
C12_InconsistentModelIsRejected ==
    (/\ lastDispatch.handler = "modeler_done"
     /\ lastDispatch.msg.has = AllFields
     /\ lastDispatch.env.loadOk
     /\ lastDispatch.env.file.readable
     /\ ~PopulationsSumToOne(lastDispatch.env.file))
    => /\ sampler.model = lastDispatch.before.sampler.model
       /\ sampler.weights = lastDispatch.before.sampler.weights
       /\ streamOpen

\* C13: the model the sampler samples from is the row of the models table with
\* the greatest time.
C13_SamplerModelIsNewestRow ==
    sampler.model # NoModel
    => \E i \in 1..Len(models) :
          /\ \A j \in 1..Len(models) : models[j].time <= models[i].time
          /\ models[i].path = sampler.model.path

\* counts^(beta - 1), normalised, of a model; a model whose counts cannot be
\* read has none
WeightsOf(model, beta) ==
    IF ~model.readable THEN NoWeights
    ELSE Only({array([i \in 1..Len(w) |-> Over(w[i], total)], Len(w)) :
                  w \in {power(counts_per_state(model.counts), beta - 1)},
                  total \in {np_sum(power(counts_per_state(model.counts),
                                          beta - 1))}})

\* C14: after every handler, the sampler having a model, its weights are the
\* normalised counts^(beta - 1) of that model and the current beta, with one
\* entry per state, and cumulative_weights are their prefix sums.
C14_WeightsAreOfCurrentModel ==
    (Dispatched /\ sampler.model # NoModel)
    => /\ sampler.weights = WeightsOf(sampler.model, sampler.beta)
       /\ sampler.cumulative_weights = cumsum(sampler.weights)
       /\ Len(sampler.weights) = Len(sampler.model.counts)

\* C15: a device never sends a message while an earlier one of the running
\* send_recv has no reply yet, and never has more replies than sends.
C15_OneRequestInFlight ==
    \A d \in Devices :
        /\ call[d].sends <= call[d].replies + 1
        /\ call[d].replies <= call[d].sends

\* the registrations of every role
Registrations == SimulatorRegistrations \cup {"register_Modeler",
                                              "register_Interactor"}

\* C16: handling a registration message of any role, the first of a client or
\* a repeat, leaves the trajectories table, the models table and the sampler
\* (model, beta, weights) as they were.
C16_RegistrationLeavesStateUnchanged ==
    (/\ Dispatched
     /\ "msg_type" \in lastDispatch.msg.has
     /\ lastDispatch.msg.header.msg_type \in Registrations)
    => /\ trajectories = lastDispatch.before.trajectories
       /\ models = lastDispatch.before.models
       /\ sampler = lastDispatch.before.sampler

\* a repeated registration answered with an assignment, the sampler having a
\* model and the trajectories table a row
C16_RepeatedRegistration ==
    /\ Dispatched
    /\ lastDispatch.handler = "register_AmberSimulator"
    /\ lastDispatch.sent # <<>>
    /\ lastDispatch.previous # NoAssignment
    /\ lastDispatch.selected.source = "model"
    /\ sampler.model # NoModel

C18_ServerSendsOnlyToSender ==
    [][(\/ packed'[ServerId] # packed[ServerId]
        \/ \E d \in Devices : Len(mailbox'[d]) > Len(mailbox[d])
        \/ ServerState' # ServerState)
       => \E f \in inbox :
             /\ inbox' = inbox \ {f}
             /\ lastDispatch'.msg = f.msg
             /\ packed'[ServerId] - packed[ServerId] = Len(lastDispatch'.sent)
             /\ \A k \in 1..Len(lastDispatch'.sent) :
                   lastDispatch'.sent[k].client_id = f.msg.header.sender_id
             /\ \A d \in Devices :
                   Len(mailbox'[d]) > Len(mailbox[d])
                   => uuid(d) = f.msg.header.sender_id]_vars

\* a device that registered has its one assignment and the server's queue
\* is empty
C18_AssignedAndSilent ==
    \E d \in Devices :
        /\ pc[d] = "startup"
        /\ startup[d].header.msg_type \in {"simulate", "construct_model"}
        /\ mailbox[d] = <<>>
        /\ inbox = {}
        /\ packed[ServerId] = 1

\* C19: a device that reports the end of its assignment sends the report
\* once, after it got the assignment, with the output location of the
\* assignment, and finishes only with the reply to it.
C19_OneCompletionReport ==
    \A d \in Devices :
        call[d].msg_type \in {"simulation_done", "modeler_done"}
        => /\ call[d].sends <= 1
           /\ startup[d].header.msg_type \in {"simulate", "construct_model"}
           /\ request[d].content.output.path = startup[d].content.output.path
           /\ pc[d] \in {"send", "poll", "finished"}
           /\ pc[d] = "finished" => call[d].replies = 1

\* the message types of a role
RoleTypes(c) ==
    IF c = "Modeler" THEN {"construct_model"} ELSE {"simulate"}

\* C20: a simulator or modeler whose startup reply is not of a type of its
\* role stops with an AssertionError: it runs no handler and starts no
\* send_recv after the registration.
C20_WrongStartupTypeIsFatal ==
    \A d \in Devices :
        (/\ class[d] \in {"Simulator", "AmberSimulator", "Modeler"}
         /\ startup[d] # NoMessage
         /\ startup[d].header.msg_type \notin RoleTypes(class[d]))
        => /\ pc[d] \in {"startup", "AssertionError"}
           /\ call[d].msg_type = RegisterType(class[d])
           /\ call[d].outcome = "returned"

\* a device stopped by the assert of on_startup_message
C20_StoppedByAssert ==
    \E d \in Devices :
        /\ pc[d] = "AssertionError"
        /\ startup[d].header.msg_type \notin RoleTypes(class[d])

\* C21: a simulator or modeler whose assignment step (the simulation, the
\* loading and clustering of the trajectories) throws has sent the server a
\* completion report with status "failure".
C21_FailureIsReported ==
    \A d \in Devices :
        (/\ class[d] \in {"Simulator", "AmberSimulator", "Modeler"}
         /\ startup[d].header.msg_type \in RoleTypes(class[d])
         /\ pc[d] \in {"Exception", "ValueError", "NameError"})
        => /\ call[d].msg_type \in {"simulation_done", "modeler_done"}
           /\ call[d].sends >= 1
           /\ request[d].content.status = "failure"

\* what a _dispatch call sent, without the ids and times of the messages
Exchange(sent) ==
    [k \in 1..Len(sent) |->
        [client_id |-> sent[k].client_id,
         msg_type |-> sent[k].msg.header.msg_type,
         content |-> sent[k].msg.content]]

\* C22: when a write to the audit database fails, for the received message or
\* for a message sent, the same handler is called and the same messages are
\* sent as when the write succeeds.
C22_AuditFailureDoesNotFailTheExchange ==
    (Dispatched /\ lastDispatch.env.audit \in {"inbound", "outbound"})
    => LET d == dispatch(lastDispatch.msg, lastDispatch.before,
                         [lastDispatch.env EXCEPT !.audit = "ok"])
       IN /\ lastDispatch.handler = d.handler
          /\ lastDispatch.raised = d.run.raised
          /\ Exchange(lastDispatch.sent) = d.run.sent

\* the get_beta request of a client
GetBeta(c) == pack_message("get_beta", c, EmptyContent, packed[c] + 1, clock)

\* C23: after set_beta with value v was answered with status "success", the
\* sampler's beta is v, the weights are those of the model and v, and a
\* get_beta that follows is answered with beta = v and status "success".
C23_SetBetaThenGetBeta ==
    (/\ lastDispatch.handler = "set_beta"
     /\ lastDispatch.sent # <<>>
     /\ lastDispatch.sent[1].msg.content.status = "success")
    => LET v == lastDispatch.msg.content.value
           reply == get_beta(Running(ServerState),
                             GetBeta(lastDispatch.msg.header.sender_id),
                             NoEnvironment).sent
       IN /\ sampler.beta = v
          /\ sampler.model # NoModel
             => sampler.weights = WeightsOf(sampler.model, v)
          /\ Len(reply) = 1
          /\ reply[1].msg_type = "response"
          /\ reply[1].content.beta = v
          /\ reply[1].content.status = "success"

\* the last call recomputed the weights of a model: a model was set, the
\* weights were reset, or beta was set to another value than it had
Recomputed ==
    /\ lastDispatch.handler \in {"set_model", "set_beta", "reset_weights"}
    /\ lastDispatch.handler = "set_beta"
          => lastDispatch.before.sampler.beta # sampler.beta
    /\ sampler.model # NoModel

\* the last call was made on a sampler that had a model and weights
OnModel ==
    /\ lastDispatch.before.sampler.model # NoModel
    /\ lastDispatch.before.sampler.weights # <<>>

\* C24: once a model exists, select with the draw u returns the generator at
\* the smallest index i with cumulative_weights[i] >= u, and that index is a
\* state of the model (0 <= i < number of states), for every u and every
\* weights a recompute produced.
C24_SelectedIndexIsAState ==
    (lastDispatch.handler = "select" /\ OnModel) =>
        LET cw == sampler.cumulative_weights
            u == uniform(lastDispatch.env.rand)
            i == lastDispatch.selected.index
        IN /\ lastDispatch.raised = "none"
           /\ lastDispatch.selected.source = "model"
           /\ i \in 0..(Len(sampler.model.counts) - 1)
           /\ ~Less(cw[i + 1], u)
           /\ \A j \in 1..i : Less(cw[j], u)

\* cumulative_weights never decreases and ends at 1 within the tolerance
WellFormedWeights(cw) ==
    /\ cw # <<>>
    /\ \A i \in 1..(Len(cw) - 1) : ~Less(cw[i + 1], cw[i])
    /\ almost_equal_one(cw[Len(cw)])

\* C25: after every recompute of the weights cumulative_weights is
\* non-decreasing and its last entry is 1 within the tolerance; a recompute
\* that would give other weights raises and does not leave them in use.
C25_RecomputedWeightsAreWellFormed ==
    Recomputed =>
        IF lastDispatch.raised = "none"
        THEN WellFormedWeights(sampler.cumulative_weights)
        ELSE \/ WellFormedWeights(sampler.cumulative_weights)
             \/ /\ sampler.weights = lastDispatch.before.sampler.weights
                /\ sampler.cumulative_weights =
                       lastDispatch.before.sampler.cumulative_weights

\* C26: with beta = 1 the recomputed weights are 1/n for each of the n states
\* of the model, whatever the counts are, zero counts included.
C26_BetaOneIsUniform ==
    (Recomputed /\ sampler.beta = 1) =>
        /\ Len(sampler.weights) = Len(sampler.model.counts)
        /\ \A i \in 1..Len(sampler.weights) :
              sampler.weights[i] = Over(One, Float(Len(sampler.model.counts)))

\* beta = 1 on a model with a state of zero counts and a state with counts
C26_UniformOverUnequalCounts ==
    /\ Recomputed
    /\ sampler.beta = 1
    /\ lastDispatch.before.sampler.weights # sampler.weights
    /\ Len(sampler.weights) >= 3
    /\ \E i, j \in 1..Len(sampler.model.counts) :
          sampler.model.counts[i] = 0 /\ sampler.model.counts[j] > 0

\* C27: of two states of the model, beta < 1 gives the one with fewer counts
\* a weight at least as large as the other's, beta > 1 a weight at most as
\* large, and for every beta every state, also one with zero counts, has a
\* strictly positive weight.
C27_WeightsFollowCountsAndArePositive ==
    (Recomputed /\ lastDispatch.raised = "none") =>
        LET counts == sampler.model.counts
            w == sampler.weights
        IN /\ Len(w) = Len(counts)
           /\ \A i, j \in 1..Len(counts) :
                 counts[i] < counts[j] =>
                    /\ sampler.beta < 1 => ~Less(w[i], w[j])
                    /\ sampler.beta > 1 => ~Less(w[j], w[i])
           /\ \A i \in 1..Len(w) : Less(Zero, w[i])

\* C28: resetting the weights directly after a reset of the weights, the
\* counts and beta being the same, leaves weights and cumulative_weights as
\* they are.
C28_ResetTwiceIsResetOnce ==
    [][(/\ lastDispatch.handler = "reset_weights"
        /\ lastDispatch'.handler = "reset_weights"
        /\ sampler'.model = sampler.model
        /\ sampler'.beta = sampler.beta) =>
           /\ sampler'.weights = sampler.weights
           /\ sampler'.cumulative_weights = sampler.cumulative_weights]_vars

\* a reset of weights that a reset just before it had computed, beta not
\* being 1 and the counts not being equal
C28_SecondReset ==
    /\ lastDispatch.handler = "reset_weights"
    /\ lastDispatch.raised = "none"
    /\ lastDispatch.before.sampler = sampler
    /\ sampler.beta # 1
    /\ Len(sampler.weights) >= 2
    /\ \E i, j \in 1..Len(sampler.weights) :
          sampler.weights[i] # sampler.weights[j]

\* the id of a message
IdOf(msg) == msg.header.msg_id

\* the messages delivered to the devices and not yet received, each with its
\* place in the mailbox
Delivered ==
    UNION {{<<d, k>> : k \in 1..Len(mailbox[d])} : d \in Devices}

\* C29: every message sent carries a newly generated id: no two messages
\* sent share an id, and a request send_recv sends again after a timeout
\* carries another id than its earlier attempts.
C29_MessageIdsAreFresh ==
    /\ \A f, g \in inbox : f # g => IdOf(f.msg) # IdOf(g.msg)
    /\ \A f \in inbox : IdOf(f.msg) # IdOf(lastDispatch.msg)
    /\ \A j, k \in 1..Len(lastDispatch.sent) :
          j # k => IdOf(lastDispatch.sent[j].msg) # IdOf(lastDispatch.sent[k].msg)
    /\ \A k \in 1..Len(lastDispatch.sent) :
          /\ IdOf(lastDispatch.sent[k].msg) # IdOf(lastDispatch.msg)
          /\ \A f \in inbox : IdOf(lastDispatch.sent[k].msg) # IdOf(f.msg)
    /\ \A p, q \in Delivered :
          p # q => IdOf(mailbox[p[1]][p[2]]) # IdOf(mailbox[q[1]][q[2]])
    /\ \A p \in Delivered, d \in Devices :
          /\ IdOf(mailbox[p[1]][p[2]]) # IdOf(startup[d])
          /\ \A f \in inbox : IdOf(mailbox[p[1]][p[2]]) # IdOf(f.msg)

\* a request and the same request sent again after a timeout are both on
\* the wire
C29_ResentRequestOnTheWire ==
    \E d \in Devices :
        /\ call[d].sends >= 2
        /\ \E f, g \in inbox :
              /\ f # g
              /\ f.msg.header.sender_id = uuid(d)
              /\ g.msg.header.sender_id = uuid(d)
              /\ f.msg.header.msg_type = g.msg.header.msg_type
              /\ f.msg.content = g.msg.content

\* C30: a message packed with (msg_type, sender_id, content) and unpacked by
\* the receiver has that msg_type, sender_id and content; pack raises and
\* nothing is sent when msg_type is not a string or content is not a mapping.
C30_PackThenUnpack ==
    /\ lastDispatch.handler = "yaml.load" =>
          \E d \in Devices :
             /\ lastDispatch.msg.header.sender_id = Str(<<uuid(d)>>)
             /\ lastDispatch.msg.header.msg_type = request[d].msg_type
             /\ lastDispatch.msg.content = request[d].content
    /\ \A d \in Devices :
          (/\ call[d].outcome # "none"
           /\ request[d].msg_type.type # "str"
              \/ request[d].content.type # "dict") =>
             /\ call[d].outcome = "ValueError"
             /\ call[d].sends = 0
             /\ \A f \in inbox : f.client # uuid(d)

\* `old` is the beginning of `new`
IsPrefix(old, new) ==
    Len(old) <= Len(new) /\ SubSeq(new, 1, Len(old)) = old

\* C31: the trajectories table and the models table are append-only: every
\* row that was once in a table is still there, at its place and with the
\* same path, protocol and time; no step deletes or rewrites a row.
C31_RegistriesAreAppendOnly ==
    [][/\ IsPrefix(trajectories, trajectories')
       /\ IsPrefix(models, models')]_vars

\* a report was handled by a server whose tables held rows
C31_ReportHandledOnStoredRows ==
    /\ lastDispatch.handler \in {"modeler_done", "simulation_done"}
    /\ lastDispatch.before.models # <<>>
    /\ lastDispatch.before.trajectories # <<>>
    /\ models = lastDispatch.before.models

\* the rows of the models table with the greatest time
Latest(table) ==
    {i \in 1..Len(table) : \A j \in 1..Len(table) : table[j].time <= table[i].time}

\* C33: after the server has started, the models table holding a row, the
\* sampler's model is that of a row with the latest time and the seed
\* structures are not selected from; the table holding no row, the sampler
\* has no model and selects from the seed structures.
C33_StartsOnLatestModel ==
    (lastDispatch.handler = "initialize_sampler" /\ lastDispatch.raised = "none")
    => LET selection == select(Running(ServerState), NoEnvironment).selected IN
       IF models = <<>>
       THEN sampler.model = NoModel /\ selection.source = "seed_structures"
       ELSE /\ \E i \in Latest(models) : sampler.model.path = models[i].path
            /\ selection.source # "seed_structures"

\* C34: handling modeler_done is all-or-nothing: after the handler has ended,
\* normally or with an error, either the sampler's model is the one of the
\* reported path and the models table holds a row for that path, or neither
\* is the case.
C34_ModelerDoneIsAllOrNothing ==
    lastDispatch.handler = "modeler_done" =>
        LET path == lastDispatch.msg.content.output.path IN
        (sampler.model.path = path)
            <=> (\E i \in 1..Len(models) : models[i].path = path)

\* C35: when a simulator has sent its simulation_done again after a timeout,
\* however many of the copies the server handles, the trajectories table
\* holds at most one row for the output path of the report, and a
\* construct_model the server sends lists that path at most once.
C35_ResentReportIsRecordedOnce ==
    \A d \in Devices :
        (call[d].msg_type = "simulation_done" /\ call[d].sends >= 2) =>
            LET path == request[d].content.output.path IN
            /\ Cardinality(RowsWithPath(path)) <= 1
            /\ \A m \in 1..Len(lastDispatch.sent) :
                  LET traj_fns == lastDispatch.sent[m].msg.content.traj_fns IN
                  Cardinality({t \in 1..Len(traj_fns) : traj_fns[t] = path}) <= 1

\* a modeler is sent construct_model after the server has handled every copy
\* of a report that was sent more than once
C35_ModelerAfterReportHandledTwice ==
    /\ lastDispatch.handler = "register_Modeler"
    /\ \E m \in 1..Len(lastDispatch.sent) :
          lastDispatch.sent[m].msg.header.msg_type = "construct_model"
    /\ \E d \in Devices :
          /\ call[d].msg_type = "simulation_done"
          /\ call[d].sends >= 2
          /\ \A f \in inbox : f.msg.header.sender_id # uuid(d)

\* C36: when set_beta is answered with status "failure" (the value missing or
\* no number, or the recompute of the weights raising), the sampler's beta,
\* weights and cumulative_weights are those before the message, and the
\* answer is the only message sent.
C36_FailedSetBetaChangesNothing ==
    (/\ lastDispatch.handler = "set_beta"
     /\ \E k \in 1..Len(lastDispatch.sent) :
           lastDispatch.sent[k].msg.content.status = "failure")
    => /\ sampler.beta = lastDispatch.before.sampler.beta
       /\ sampler.weights = lastDispatch.before.sampler.weights
       /\ sampler.cumulative_weights =
              lastDispatch.before.sampler.cumulative_weights
       /\ Len(lastDispatch.sent) = 1

\* C37: handling simulation_status or simulation_done leaves the models table
\* and the sampler (model, beta, weights) as they were; simulation_done
\* appends exactly one row to the trajectories table, with the path and
\* protocol of content.output and the time of the report's header, and
\* simulation_status appends none.
C37_ReportsOfSimulatorsAppendOneRow ==
    lastDispatch.handler \in {"simulation_status", "simulation_done"} =>
        /\ models = lastDispatch.before.models
        /\ sampler = lastDispatch.before.sampler
        /\ trajectories =
              IF lastDispatch.handler = "simulation_done"
              THEN Append(lastDispatch.before.trajectories,
                          [time |-> lastDispatch.msg.header.time,
                           protocol |-> lastDispatch.msg.content.output.protocol,
                           path |-> lastDispatch.msg.content.output.path])
              ELSE lastDispatch.before.trajectories

\* the clients that were sent an assignment
Assigned == {c \in Clients : assignment[c] # NoAssignment}

\* C38: the output location of an assignment is a function of the sender_id
\* of the registration: two clients with different ids are never assigned
\* the same output path, and a client that registers again in the same role
\* is assigned the output location it was assigned before.
C38_OutputIsOfTheSender ==
    /\ \A c1, c2 \in Assigned :
          c1 # c2 => assignment[c1].content.output.path
                        # assignment[c2].content.output.path
    /\ (/\ Dispatched
        /\ lastDispatch.msg.header.msg_type \in Registrations
        /\ lastDispatch.previous # NoAssignment
        /\ lastDispatch.sent # <<>>
        /\ assignment[lastDispatch.msg.header.sender_id].msg_type
              = lastDispatch.previous.msg_type)
       => assignment[lastDispatch.msg.header.sender_id].content.output
             = lastDispatch.previous.content.output

\* two simulators hold an assignment, one of them after a second registration
C38_TwoSimulatorsOneRegisteredAgain ==
    /\ lastDispatch.handler = "register_AmberSimulator"
    /\ lastDispatch.previous.msg_type = "simulate"
    /\ lastDispatch.sent # <<>>
    /\ \E c \in Assigned :
          /\ c # lastDispatch.msg.header.sender_id
          /\ assignment[c].msg_type = "simulate"

\* C39: a modeler whose construct_model assignment has no trajectory that
\* loads (none is listed, or none of the files listed is there) stops with
\* ValueError: it starts no send_recv after its registration and sends no
\* modeler_done, and the models table and the sampler stay as they were.
C39_ModelerWithoutTrajectoriesStops ==
    \A d \in Devices :
        (/\ class[d] = "Modeler"
         /\ startup[d].header.msg_type = "construct_model"
         /\ pc[d] # "startup")
        => /\ pc[d] \in {"ValueError", "NameError"}
           /\ startup[d].content.traj_fns = <<>> => pc[d] = "ValueError"
           /\ call[d].msg_type = RegisterType("Modeler")
           /\ \A f \in inbox :
                 f.msg.header.sender_id = uuid(d)
                 => f.msg.header.msg_type # "modeler_done"
           /\ models = <<>>
           /\ sampler = NoSampler

\* a modeler stopped by the ValueError of load_trajectories, its assignment
\* listing a trajectory
C39_StoppedOnMissingFiles ==
    \E d \in Devices :
        /\ class[d] = "Modeler"
        /\ pc[d] = "ValueError"
        /\ startup[d].header.msg_type = "construct_model"
        /\ startup[d].content.traj_fns # <<>>

\* C40: for every list of sublist lengths and every index below their sum,
\* reindex_list returns (k, r) where the first k lengths sum, plus r, to the
\* index and 0 <= r < lengths[k], also when some sublists have length 0; for
\* an index at or past the total length it raises an error.
C40_ReindexListLocatesTheItem ==
    reindexed.raised # "pending" =>
        LET lengths == reindexed.sublist_lengths
            indices == reindexed.indices
        IN IF \E ii \in 1..Len(indices) : indices[ii] >= Sum(lengths)
           THEN reindexed.raised # "none"
           ELSE /\ reindexed.raised = "none"
                /\ Len(reindexed.output) = Len(indices)
                /\ \A ii \in 1..Len(indices) :
                      LET k == reindexed.output[ii].k
                          r == reindexed.output[ii].residual
                      IN /\ k \in 0..(Len(lengths) - 1)
                         /\ Sum(SubSeq(lengths, 1, k)) + r = indices[ii]
                         /\ 0 <= r
                         /\ r < lengths[k + 1]

\* C32: at most one handler runs at a time against the tables and the
\* sampler: a _dispatch call has returned before the next message is
\* dispatched, so what a running handler finds is the state it began on
\* with its own changes, never the half-made change of another handler.
C32_OneHandlerAtATime ==
    /\ Len(running) <= 1
    /\ \A i \in 1..Len(running) : ServerState = Observed(running[i])

\* a handler has stored the new model and not yet recomputed the weights,
\* and the next message is waiting
C32_NextFrameWaitsOnRecompute ==
    /\ running # <<>>
    /\ running[1].at = "stored"
    /\ sampler.model # running[1].before.sampler.model
    /\ sampler # running[1].d.run.state.sampler
    /\ inbox # {}

====
